---- MODULE Spec2Model ----
(***************************************************************************)
(* Elevator control system: the entity factory (elevatorFactory.ts), the   *)
(* dispatcher (elevatorDispatch.ts) and the control service                *)
(* (ElevatorControlService.ts) driven through the hook                     *)
(* (useElevatorSystem.ts).                                                 *)
(*                                                                         *)
(* Timestamps (lastActivity, timestamp, systemStartTime), message strings  *)
(* and the console output are not modelled: no decision of the code reads  *)
(* them.  A call id `call-<n>-<time>` is modelled by its counter n, an     *)
(* absent assignedElevator / elevatorId / floor and null by -1.            *)
(***************************************************************************)
EXTENDS Integers, Sequences, FiniteSets, TLC

VARIABLES
    elevators,            \* state.elevators: sequence of elevator records
    pendingCalls,         \* state.pendingCalls: sequence of call records
    logs,                 \* state.logs: sequence of log entries
    isSimulationRunning,  \* state.isSimulationRunning
    totalCallsProcessed,  \* state.totalCallsProcessed
    callIdCounter,        \* ElevatorFactory.callIdCounter
    timers,               \* pending setTimeout callbacks, in scheduling order
    input,                \* arguments of the function under study (pure-function specifications)
    output                \* its result

vars == <<elevators, pendingCalls, logs, isSimulationRunning, totalCallsProcessed,
          callIdCounter, timers, input, output>>

(***************************************************************************)
(* constants.ts (SYSTEM_CONFIG, ELEVATOR_STATES, CALL_DIRECTIONS,          *)
(* LOG_TYPES)                                                              *)
(***************************************************************************)
FLOORS == 10

ELEVATOR_COUNT == 4

MAX_LOG_ENTRIES == 100

DEFAULT_MAX_DESTINATIONS == 3

MAX_ATTEMPTS == 10

IDLE == "idle"

MOVING_UP == "up"

MOVING_DOWN == "down"

ELEVATOR_STATES == {IDLE, MOVING_UP, MOVING_DOWN}

CALL_DIRECTIONS == {"up", "down"}

LOG_TYPES == {"call", "pickup", "dropoff", "movement", "system"}

\* undefined / null of an optional numeric field (no id and no floor below is negative)
None == -1

(***************************************************************************)
(* Bounds of the model                                                     *)
(***************************************************************************)
\* calls the environment creates in one behaviour (cap of callIdCounter)
MaxCalls == 2

\* calls the environment creates once every car is busy (specification SpecBusy)
MaxBusyCalls == 1

\* number of values Math.random() takes: 0, 1/(RandLevels-1), ..., and a value just below 1
RandLevels == 3

\* longest fleet handed to findBestElevator on its own
MaxFleet == 2

\* most destination floors of an elevator handed to the dispatcher on its own
MaxProbeDestinations == 1

\* floors beyond either end of the building handed to the factory and to the
\* score on their own
MaxBeyond == 2

\* most pending calls handed to shouldElevatorStop on its own
MaxStopCalls == 2

\* most destination floors of the elevator handed to getNextDestination on its own
MaxNextDestinations == 2

\* most pending calls handed to getNextDestination on its own
MaxNextCalls == 1

\* events emitted beyond MAX_LOG_ENTRIES (specification SpecLog)
MaxExtraLogs == 3

\* calls of clearLogs in one behaviour (specification SpecLog)
MaxClears == 1

\* calls the service is given while a reader holds snapshots
MaxSnapshotCalls == 1

\* calls the factory creates while a reader holds snapshots, for the service
\* or for the reader (cap of callIdCounter)
MaxSnapshotIds == 2

\* writes of the reader to one snapshot
MaxWrites == 2

\* calls in a behaviour with the simulation toggled and the log cleared
MaxControlCalls == 1

\* calls of toggleSimulation in one behaviour (specification SpecControl)
MaxToggles == 2

(***************************************************************************)
(* Helpers: Math.abs, Math.max, Math.floor(Math.random() * n)              *)
(***************************************************************************)
Abs(x) == IF x < 0 THEN -x ELSE x

Max(a, b) == IF a > b THEN a ELSE b

\* the values Math.floor(Math.random() * n) takes over the modelled random values
RandomBelow(n) ==
    {IF k = RandLevels - 1 THEN n - 1 ELSE (k * n) \div (RandLevels - 1) :
        k \in 0 .. RandLevels - 1}

\* the outcomes of `Math.random() > 0.5` over the modelled random values
RandomAboveHalf == {k = RandLevels - 1 \/ 2 * k > RandLevels - 1 : k \in 0 .. RandLevels - 1}

\* ascending sort of a finite set of numbers: Array.from(set).sort((a, b) => a - b)
RECURSIVE SortAscending(_)
SortAscending(S) ==
    IF S = {} THEN << >>
    ELSE LET m == CHOOSE x \in S : \A y \in S : x <= y
         IN  <<m>> \o SortAscending(S \ {m})

(***************************************************************************)
(* ElevatorFactory (elevatorFactory.ts)                                    *)
(***************************************************************************)
\* mutant: the ids are the array indices, from 0
NewElevator_IdIsIndex(id) ==
    [id |-> id - 1, currentFloor |-> 1, direction |-> IDLE, isMoving |-> FALSE,
     isLoading |-> FALSE, destinationFloors |-> {}, passengers |-> 0]

\* the elevator createInitialElevators makes for the index id - 1
NewElevator(id) ==
    [id |-> id, currentFloor |-> 1, direction |-> IDLE, isMoving |-> FALSE,
     isLoading |-> FALSE, destinationFloors |-> {}, passengers |-> 0]

createInitialElevators == [index \in 1 .. ELEVATOR_COUNT |-> NewElevator(index)]

NewCall(id, floor, direction) ==
    [id |-> id, floor |-> floor, direction |-> direction, assignedElevator |-> None]

\* mutant: the direction is not adjusted at the top floor
generateRandomCall_NoTopAdjust(counter) ==
    {NewCall(counter + 1, floor,
             IF floor = 1 THEN "up"
             ELSE IF above THEN "up" ELSE "down") :
        floor \in {r + 1 : r \in RandomBelow(FLOORS)}, above \in RandomAboveHalf}

\* the calls generateRandomCall can return when the id counter stands at `counter`
generateRandomCall(counter) ==
    {NewCall(counter + 1, floor,
             IF floor = FLOORS THEN "down"
             ELSE IF floor = 1 THEN "up"
             ELSE IF above THEN "up" ELSE "down") :
        floor \in {r + 1 : r \in RandomBelow(FLOORS)}, above \in RandomAboveHalf}

\* mutant: the top floor is not checked
createFloorCall_NoTopCheck(floor, direction, counter) ==
    IF floor < 1 \/ floor > FLOORS THEN [threw |-> TRUE, error |-> "Invalid floor"]
    ELSE IF floor = 1 /\ direction = "down"
        THEN [threw |-> TRUE, error |-> "Cannot go down from ground floor"]
    ELSE [threw |-> FALSE, call |-> NewCall(counter + 1, floor, direction)]

\* [threw |-> TRUE] when createFloorCall throws, else the call it returns
createFloorCall(floor, direction, counter) ==
    IF floor < 1 \/ floor > FLOORS THEN [threw |-> TRUE, error |-> "Invalid floor"]
    ELSE IF floor = 1 /\ direction = "down"
        THEN [threw |-> TRUE, error |-> "Cannot go down from ground floor"]
    ELSE IF floor = FLOORS /\ direction = "up"
        THEN [threw |-> TRUE, error |-> "Cannot go up from top floor"]
    ELSE [threw |-> FALSE, call |-> NewCall(counter + 1, floor, direction)]

\* `message` is the kind of event the message text tells
createLogEntry(type, message, elevatorId, floor) ==
    [type |-> type, message |-> message, elevatorId |-> elevatorId, floor |-> floor]

\* mutant: the drawn floors are 0 .. FLOORS - 1
RECURSIVE DestinationSlots_ZeroBased(_, _, _)
DestinationSlots_ZeroBased(slots, currentFloor, destinations) ==
    IF slots = 0 THEN {destinations}
    ELSE LET drawn   == RandomBelow(FLOORS)
             invalid == {d \in drawn : d = currentFloor \/ d \in destinations}
             added   == IF MAX_ATTEMPTS > 1 THEN drawn \ invalid ELSE {}
             omitted == MAX_ATTEMPTS = 1 \/ invalid # {}
         IN  UNION ({DestinationSlots_ZeroBased(slots - 1, currentFloor,
                                                destinations \cup {d}) : d \in added}
                    \cup (IF omitted
                          THEN {DestinationSlots_ZeroBased(slots - 1, currentFloor,
                                                           destinations)}
                          ELSE {}))

\* the sets the slots i .. numDestinations-1 of generatePassengerDestinations can
\* leave, from `destinations`: a slot adds a floor found valid before the last
\* attempt, or adds nothing when the attempts ran out
RECURSIVE DestinationSlots(_, _, _)
DestinationSlots(slots, currentFloor, destinations) ==
    IF slots = 0 THEN {destinations}
    ELSE LET drawn   == {r + 1 : r \in RandomBelow(FLOORS)}
             invalid == {d \in drawn : d = currentFloor \/ d \in destinations}
             added   == IF MAX_ATTEMPTS > 1 THEN drawn \ invalid ELSE {}
             omitted == MAX_ATTEMPTS = 1 \/ invalid # {}
         IN  UNION ({DestinationSlots(slots - 1, currentFloor, destinations \cup {d}) :
                        d \in added}
                    \cup (IF omitted
                          THEN {DestinationSlots(slots - 1, currentFloor, destinations)}
                          ELSE {}))

\* the sets generatePassengerDestinations(currentFloor, maxDestinations) can return
generatePassengerDestinations(currentFloor, maxDestinations) ==
    UNION {DestinationSlots(n + 1, currentFloor, {}) : n \in RandomBelow(maxDestinations)}

createInitialSystemState ==
    [elevators |-> createInitialElevators, pendingCalls |-> << >>, logs |-> << >>,
     isSimulationRunning |-> FALSE, totalCallsProcessed |-> 0]

(***************************************************************************)
(* ElevatorDispatcher (elevatorDispatch.ts)                                *)
(***************************************************************************)
\* null
NoElevator == [id |-> None]

canPickupWithoutDirectionChange(elevator, call) ==
    IF elevator.direction = IDLE THEN TRUE
    ELSE IF elevator.direction = call.direction
        THEN IF call.direction = MOVING_UP
             THEN elevator.currentFloor <= call.floor
             ELSE elevator.currentFloor >= call.floor
    ELSE FALSE

\* mutant: the busy elevators are not penalised
calculateElevatorScore_NoLoadPenalty(elevator, call) ==
    LET distance == Abs(elevator.currentFloor - call.floor)
        s1 == 0 + Max(0, 100 - distance * 10)
        s2 == IF elevator.direction = call.direction THEN s1 + 50 ELSE s1
        s3 == IF elevator.direction = IDLE THEN s2 + 25 ELSE s2
    IN  IF canPickupWithoutDirectionChange(elevator, call) THEN s3 + 75 ELSE s3

\* mutant: picking up without a change of direction earns nothing
calculateElevatorScore_NoPickupBonus(elevator, call) ==
    LET distance == Abs(elevator.currentFloor - call.floor)
        s1 == 0 + Max(0, 100 - distance * 10)
        s2 == IF elevator.direction = call.direction THEN s1 + 50 ELSE s1
        s3 == IF elevator.direction = IDLE THEN s2 + 25 ELSE s2
    IN  s3 - Cardinality(elevator.destinationFloors) * 5

\* mutant: the distance earns nothing
calculateElevatorScore_NoDistance(elevator, call) ==
    LET s2 == IF elevator.direction = call.direction THEN 50 ELSE 0
        s3 == IF elevator.direction = IDLE THEN s2 + 25 ELSE s2
        s4 == IF canPickupWithoutDirectionChange(elevator, call) THEN s3 + 75 ELSE s3
    IN  s4 - Cardinality(elevator.destinationFloors) * 5

calculateElevatorScore(elevator, call) ==
    LET distance == Abs(elevator.currentFloor - call.floor)
        s1 == 0 + Max(0, 100 - distance * 10)
        s2 == IF elevator.direction = call.direction THEN s1 + 50 ELSE s1
        s3 == IF elevator.direction = IDLE THEN s2 + 25 ELSE s2
        s4 == IF canPickupWithoutDirectionChange(elevator, call) THEN s3 + 75 ELSE s3
    IN  s4 - Cardinality(elevator.destinationFloors) * 5

\* scored.sort((a, b) => b.score - a.score): descending by score, stable
\* (an entry goes behind every entry already placed whose score is not lower)
\* mutant: an unstable sort, an entry goes before the entries of equal score
InsertByScore_BeforeEqual(sorted, entry) ==
    LET before == {i \in 1 .. Len(sorted) : sorted[i].score > entry.score}
        k == IF before = {} THEN 0 ELSE CHOOSE i \in before : \A j \in before : j <= i
    IN  SubSeq(sorted, 1, k) \o <<entry>> \o SubSeq(sorted, k + 1, Len(sorted))

InsertByScore(sorted, entry) ==
    LET before == {i \in 1 .. Len(sorted) : sorted[i].score >= entry.score}
        k == IF before = {} THEN 0 ELSE CHOOSE i \in before : \A j \in before : j <= i
    IN  SubSeq(sorted, 1, k) \o <<entry>> \o SubSeq(sorted, k + 1, Len(sorted))

RECURSIVE SortByScore(_)
SortByScore(scored) ==
    IF scored = << >> THEN << >>
    ELSE InsertByScore(SortByScore(SubSeq(scored, 1, Len(scored) - 1)), scored[Len(scored)])

IsAvailable(elevator) == ~elevator.isMoving /\ ~elevator.isLoading

findBestElevator(fleet, call) ==
    LET availableElevators == SelectSeq(fleet, IsAvailable)
        scoredElevators ==
            [i \in 1 .. Len(availableElevators) |->
                [elevator |-> availableElevators[i],
                 score |-> calculateElevatorScore(availableElevators[i], call)]]
    IN  IF Len(availableElevators) = 0 THEN NoElevator
        ELSE SortByScore(scoredElevators)[1].elevator

isCallCompatibleWithDirection(call, elevatorDirection) ==
    elevatorDirection = IDLE \/ call.direction = elevatorDirection

\* mutant: stops for a compatible call at the floor, whoever it is assigned to
shouldElevatorStop_AnyAssignee(elevator, floor, calls) ==
    IF floor \in elevator.destinationFloors THEN TRUE
    ELSE \E i \in 1 .. Len(calls) :
            /\ calls[i].floor = floor
            /\ isCallCompatibleWithDirection(calls[i], elevator.direction)

\* mutant: stops for dropoffs only, never for an assigned pickup
shouldElevatorStop_DropoffOnly(elevator, floor, calls) ==
    floor \in elevator.destinationFloors

shouldElevatorStop(elevator, floor, calls) ==
    IF floor \in elevator.destinationFloors THEN TRUE
    ELSE \E i \in 1 .. Len(calls) :
            /\ calls[i].floor = floor
            /\ calls[i].assignedElevator = elevator.id
            /\ isCallCompatibleWithDirection(calls[i], elevator.direction)

\* mutant: a floor as close as the closest so far replaces it
ReduceClosest_LaterWins(closest, rest, currentFloor) ==
    LET nearest == CHOOSE d \in {closest} \cup {rest[i] : i \in 1 .. Len(rest)} :
                       \A e \in {closest} \cup {rest[i] : i \in 1 .. Len(rest)} :
                           \/ Abs(d - currentFloor) < Abs(e - currentFloor)
                           \/ (Abs(d - currentFloor) = Abs(e - currentFloor) /\ d >= e)
    IN  nearest

\* destinations.reduce((closest, floor) => |floor - cur| < |closest - cur| ? floor : closest)
RECURSIVE ReduceClosest(_, _, _)
ReduceClosest(closest, rest, currentFloor) ==
    IF rest = << >> THEN closest
    ELSE ReduceClosest(
            IF Abs(Head(rest) - currentFloor) < Abs(closest - currentFloor)
            THEN Head(rest) ELSE closest,
            Tail(rest), currentFloor)

\* mutant: the destinations behind the elevator come first
getNextDestination_ReversesFirst(elevator, calls) ==
    LET assignedFloors == {calls[i].floor :
                              i \in {j \in 1 .. Len(calls) :
                                         calls[j].assignedElevator = elevator.id}}
        allDestinations == elevator.destinationFloors \cup assignedFloors
        destinations == SortAscending(allDestinations)
        nearest == ReduceClosest(Head(destinations), Tail(destinations),
                                 elevator.currentFloor)
        upDestinations == SelectSeq(destinations, LAMBDA floor : floor > elevator.currentFloor)
        downDestinations == SelectSeq(destinations, LAMBDA floor : floor < elevator.currentFloor)
    IN  IF allDestinations = {} THEN None
        ELSE IF elevator.direction = IDLE THEN nearest
        ELSE IF elevator.direction = MOVING_DOWN /\ Len(upDestinations) > 0
            THEN upDestinations[1]
        ELSE IF elevator.direction = MOVING_UP /\ Len(downDestinations) > 0
            THEN downDestinations[Len(downDestinations)]
        ELSE nearest

\* mutant: the nearest destination, whatever the direction of the elevator
getNextDestination_NearestAlways(elevator, calls) ==
    LET assignedFloors == {calls[i].floor :
                              i \in {j \in 1 .. Len(calls) :
                                         calls[j].assignedElevator = elevator.id}}
        allDestinations == elevator.destinationFloors \cup assignedFloors
        destinations == SortAscending(allDestinations)
    IN  IF allDestinations = {} THEN None
        ELSE ReduceClosest(Head(destinations), Tail(destinations), elevator.currentFloor)

\* the next floor, or None for null
getNextDestination(elevator, calls) ==
    LET assignedFloors == {calls[i].floor :
                              i \in {j \in 1 .. Len(calls) :
                                         calls[j].assignedElevator = elevator.id}}
        allDestinations == elevator.destinationFloors \cup assignedFloors
        destinations == SortAscending(allDestinations)
        nearest == ReduceClosest(Head(destinations), Tail(destinations),
                                 elevator.currentFloor)
        upDestinations == SelectSeq(destinations, LAMBDA floor : floor > elevator.currentFloor)
        downDestinations == SelectSeq(destinations, LAMBDA floor : floor < elevator.currentFloor)
    IN  IF allDestinations = {} THEN None
        ELSE IF elevator.direction = IDLE THEN nearest
        ELSE IF elevator.direction = MOVING_UP /\ Len(upDestinations) > 0
            THEN upDestinations[1]
        ELSE IF elevator.direction = MOVING_DOWN /\ Len(downDestinations) > 0
            THEN downDestinations[Len(downDestinations)]
        ELSE nearest

(***************************************************************************)
(* ElevatorControlService (ElevatorControlService.ts).  The private        *)
(* methods are operators from a service state                              *)
(*   [elevators, pendingCalls, logs, totalCallsProcessed, timers]          *)
(* to the service state they leave; the public methods and the timer       *)
(* callbacks are the actions below.                                        *)
(***************************************************************************)
\* statement sequencing: the state S1 a statement leaves, handed to the rest
\* (S1 is computed once, whatever the evaluation mode of the model checker)
Then(S1, Rest(_)) == CHOOSE S2 \in {Rest(T) : T \in {S1}} : TRUE

ServiceState ==
    [elevators |-> elevators, pendingCalls |-> pendingCalls, logs |-> logs,
     totalCallsProcessed |-> totalCallsProcessed, timers |-> timers]

\* mutant: the oldest entry goes only once the cap is exceeded
addLog_EvictsLate(S, type, message, elevatorId, floor) ==
    LET kept == IF Len(S.logs) > MAX_LOG_ENTRIES
                THEN SubSeq(S.logs, Len(S.logs) - (MAX_LOG_ENTRIES - 1) + 1, Len(S.logs))
                ELSE S.logs
    IN  [S EXCEPT !.logs = Append(kept, createLogEntry(type, message, elevatorId, floor))]

\* logs.slice(-MAX_LOG_ENTRIES + 1) once the cap is reached, then push
addLog(S, type, message, elevatorId, floor) ==
    LET kept == IF Len(S.logs) >= MAX_LOG_ENTRIES
                THEN SubSeq(S.logs, Len(S.logs) - (MAX_LOG_ENTRIES - 1) + 1, Len(S.logs))
                ELSE S.logs
    IN  [S EXCEPT !.logs = Append(kept, createLogEntry(type, message, elevatorId, floor))]

\* mutant: the passenger count is left as it was
handlePassengerDropoff_KeepsPassengers(S, id, floor) ==
    LET left == S.elevators[id].destinationFloors \ {floor}
        S1 == [S EXCEPT !.elevators[id].destinationFloors = left]
        S2 == addLog(S1, "dropoff", "disembarked", id, floor)
    IN  IF Cardinality(left) = 0
        THEN addLog([S2 EXCEPT !.elevators[id].direction = IDLE], "system", "idle", id, floor)
        ELSE S2

handlePassengerDropoff(S, id, floor) ==
    LET left == S.elevators[id].destinationFloors \ {floor}
        S1 == [S EXCEPT !.elevators[id].destinationFloors = left,
                        !.elevators[id].passengers = Cardinality(left)]
        S2 == addLog(S1, "dropoff", "disembarked", id, floor)
    IN  IF Cardinality(left) = 0
        THEN addLog([S2 EXCEPT !.elevators[id].direction = IDLE], "system", "idle", id, floor)
        ELSE S2

\* mutant: the pickup removes every call at the floor
handlePassengerPickup_RemovesFloorCalls(S, id, floor, call) ==
    LET S1 == [S EXCEPT !.elevators[id].isLoading = TRUE]
        S2 == addLog(S1, "pickup", "loading", id, floor)
    IN  [S2 EXCEPT !.pendingCalls = SelectSeq(S2.pendingCalls, LAMBDA c : c.floor # call.floor),
                   !.totalCallsProcessed = @ + 1,
                   !.timers = Append(@, [kind |-> "loading", elevator |-> id,
                                         floor |-> floor])]

\* mutant: the loading timer is started without the elevator being set loading
handlePassengerPickup_NotLoading(S, id, floor, call) ==
    LET S2 == addLog(S, "pickup", "loading", id, floor)
    IN  [S2 EXCEPT !.pendingCalls = SelectSeq(S2.pendingCalls, LAMBDA c : c.id # call.id),
                   !.totalCallsProcessed = @ + 1,
                   !.timers = Append(@, [kind |-> "loading", elevator |-> id,
                                         floor |-> floor])]

handlePassengerPickup(S, id, floor, call) ==
    LET S1 == [S EXCEPT !.elevators[id].isLoading = TRUE]
        S2 == addLog(S1, "pickup", "loading", id, floor)
    IN  [S2 EXCEPT !.pendingCalls = SelectSeq(S2.pendingCalls, LAMBDA c : c.id # call.id),
                   !.totalCallsProcessed = @ + 1,
                   !.timers = Append(@, [kind |-> "loading", elevator |-> id,
                                         floor |-> floor])]

\* mutant: a stop that let passengers off picks nobody up
handleElevatorAtFloor_DropoffOrPickup(S, id) ==
    LET currentFloor == S.elevators[id].currentFloor
        found == SelectSeq(S.pendingCalls,
                           LAMBDA c : c.floor = currentFloor /\ c.assignedElevator = id)
    IN  IF ~shouldElevatorStop(S.elevators[id], currentFloor, S.pendingCalls) THEN S
        ELSE IF currentFloor \in S.elevators[id].destinationFloors
            THEN handlePassengerDropoff(S, id, currentFloor)
        ELSE IF found # << >> THEN handlePassengerPickup(S, id, currentFloor, found[1])
        ELSE S

\* mutant: the pickup takes any call at the floor, whoever it is assigned to
handleElevatorAtFloor_AnyCall(S, id) ==
    LET currentFloor == S.elevators[id].currentFloor
        S1 == IF currentFloor \in S.elevators[id].destinationFloors
              THEN handlePassengerDropoff(S, id, currentFloor)
              ELSE S
        found == SelectSeq(S1.pendingCalls, LAMBDA c : c.floor = currentFloor)
    IN  IF found # << >> THEN handlePassengerPickup(S1, id, currentFloor, found[1])
        ELSE S1

handleElevatorAtFloor(S, id) ==
    LET currentFloor == S.elevators[id].currentFloor
        S1 == IF currentFloor \in S.elevators[id].destinationFloors
              THEN handlePassengerDropoff(S, id, currentFloor)
              ELSE S
        found == SelectSeq(S1.pendingCalls,
                           LAMBDA c : c.floor = currentFloor /\ c.assignedElevator = id)
    IN  IF ~shouldElevatorStop(S.elevators[id], currentFloor, S.pendingCalls) THEN S
        ELSE IF found # << >> THEN handlePassengerPickup(S1, id, currentFloor, found[1])
        ELSE S1

\* mutant: the target is taken off the destinations when the elevator leaves
moveElevator_DropsAtDeparture(S, id, targetFloor) ==
    LET direction == IF targetFloor > S.elevators[id].currentFloor
                     THEN MOVING_UP ELSE MOVING_DOWN
        left == S.elevators[id].destinationFloors \ {targetFloor}
        S1 == [S EXCEPT !.elevators[id].isMoving = TRUE,
                        !.elevators[id].direction = direction,
                        !.elevators[id].destinationFloors = left,
                        !.elevators[id].passengers = Cardinality(left)]
        S2 == addLog(S1, "movement", "moving", id, None)
    IN  [S2 EXCEPT !.timers = Append(@, [kind |-> "move", elevator |-> id,
                                         floor |-> targetFloor])]

\* mutant: the direction is up whatever the target
moveElevator_AlwaysUp(S, id, targetFloor) ==
    LET S1 == [S EXCEPT !.elevators[id].isMoving = TRUE,
                        !.elevators[id].direction = MOVING_UP]
        S2 == addLog(S1, "movement", "moving", id, None)
    IN  [S2 EXCEPT !.timers = Append(@, [kind |-> "move", elevator |-> id,
                                         floor |-> targetFloor])]

moveElevator(S, id, targetFloor) ==
    LET direction == IF targetFloor > S.elevators[id].currentFloor
                     THEN MOVING_UP ELSE MOVING_DOWN
        S1 == [S EXCEPT !.elevators[id].isMoving = TRUE,
                        !.elevators[id].direction = direction]
        S2 == addLog(S1, "movement", "moving", id, None)
    IN  [S2 EXCEPT !.timers = Append(@, [kind |-> "move", elevator |-> id,
                                         floor |-> targetFloor])]

\* mutant: an elevator with nowhere to go is set and logged idle at every tick
moveElevatorToNextDestination_AlwaysLogsIdle(S, id) ==
    LET nextDestination == getNextDestination(S.elevators[id], S.pendingCalls)
    IN  IF nextDestination = None \/ nextDestination = 0
           \/ nextDestination = S.elevators[id].currentFloor
        THEN addLog([S EXCEPT !.elevators[id].direction = IDLE], "system", "idle", id,
                    S.elevators[id].currentFloor)
        ELSE moveElevator(S, id, nextDestination)

\* `!nextDestination` holds for null and for floor 0
moveElevatorToNextDestination(S, id) ==
    LET nextDestination == getNextDestination(S.elevators[id], S.pendingCalls)
    IN  IF nextDestination = None \/ nextDestination = 0
           \/ nextDestination = S.elevators[id].currentFloor
        THEN IF S.elevators[id].direction # IDLE
             THEN addLog([S EXCEPT !.elevators[id].direction = IDLE], "system", "idle", id,
                         S.elevators[id].currentFloor)
             ELSE S
        ELSE moveElevator(S, id, nextDestination)

\* the forEach of reassignUnassignedCalls over the calls filtered at its start
RECURSIVE ReassignEach(_, _)
ReassignEach(S, unassignedCalls) ==
    IF unassignedCalls = << >> THEN S
    ELSE LET call == Head(unassignedCalls)
             bestElevator == findBestElevator(S.elevators, call)
             indices == {i \in 1 .. Len(S.pendingCalls) : S.pendingCalls[i].id = call.id}
             callIndex == CHOOSE i \in indices : \A j \in indices : i <= j
             S1 == IF bestElevator # NoElevator /\ indices # {}
                   THEN addLog([S EXCEPT !.pendingCalls[callIndex] =
                                    [call EXCEPT !.assignedElevator = bestElevator.id]],
                               "system", "reassigned", bestElevator.id, call.floor)
                   ELSE S
         IN  Then(S1, LAMBDA T : ReassignEach(T, Tail(unassignedCalls)))

\* mutant: the pass takes every pending call, assigned or not
reassignUnassignedCalls_EveryCall(S) ==
    ReassignEach(S, S.pendingCalls)

reassignUnassignedCalls(S) ==
    ReassignEach(S, SelectSeq(S.pendingCalls, LAMBDA c : c.assignedElevator = None))

\* mutant: only the loading elevators are skipped
ProcessElevator_SkipsLoadingOnly(S, id) ==
    IF S.elevators[id].isLoading THEN S
    ELSE Then(handleElevatorAtFloor(S, id),
              LAMBDA T : moveElevatorToNextDestination(T, id))

\* the body of the forEach of processElevatorLogic for one elevator
ProcessElevator(S, id) ==
    IF S.elevators[id].isMoving \/ S.elevators[id].isLoading THEN S
    ELSE Then(handleElevatorAtFloor(S, id),
              LAMBDA T : moveElevatorToNextDestination(T, id))

\* mutant: the elevators id .. last are processed last to first
RECURSIVE ProcessElevatorsFrom_Descending(_, _)
ProcessElevatorsFrom_Descending(S, id) ==
    IF id > Len(S.elevators) THEN S
    ELSE Then(ProcessElevatorsFrom_Descending(S, id + 1), LAMBDA T : ProcessElevator(T, id))

\* the forEach over elevators id .. last, in order
RECURSIVE ProcessElevatorsFrom(_, _)
ProcessElevatorsFrom(S, id) ==
    IF id > Len(S.elevators) THEN S
    ELSE Then(ProcessElevator(S, id), LAMBDA T : ProcessElevatorsFrom(T, id + 1))

\* mutant: the reassignment pass runs before the cars are advanced
processElevatorLogic_ReassignFirst(S) ==
    Then(reassignUnassignedCalls(S), LAMBDA T : ProcessElevatorsFrom(T, 1))

processElevatorLogic(S) ==
    Then(ProcessElevatorsFrom(S, 1), LAMBDA T : reassignUnassignedCalls(T))

\* mutant: a call no car can take is logged and dropped
addFloorCall_RejectWhenBusy(S, call) ==
    LET bestElevator == findBestElevator(S.elevators, call)
    IN  IF bestElevator = NoElevator
        THEN addLog(S, "system", "queued", None, None)
        ELSE addLog([S EXCEPT !.pendingCalls =
                         Append(@, [call EXCEPT !.assignedElevator = bestElevator.id])],
                    "call", "assigned", bestElevator.id, call.floor)

addFloorCall(S, call) ==
    LET bestElevator == findBestElevator(S.elevators, call)
    IN  IF bestElevator = NoElevator
        THEN [addLog(S, "system", "queued", None, None) EXCEPT !.pendingCalls = Append(@, call)]
        ELSE addLog([S EXCEPT !.pendingCalls =
                         Append(@, [call EXCEPT !.assignedElevator = bestElevator.id])],
                    "call", "assigned", bestElevator.id, call.floor)

\* mutant: the new destinations replace the ones the elevator had
loadingTimeout_ReplacesDestinations(S, timer, destinations) ==
    LET id == timer.elevator
    IN  IF S.elevators[id].isLoading
        THEN addLog([S EXCEPT !.elevators[id].destinationFloors = destinations,
                              !.elevators[id].passengers = Cardinality(destinations),
                              !.elevators[id].isLoading = FALSE],
                    "system", "finished loading", id, timer.floor)
        ELSE S

\* mutant: the passengers are counted up by the number of new destinations
loadingTimeout_CountsBoarded(S, timer, destinations) ==
    LET id == timer.elevator
        all == S.elevators[id].destinationFloors \cup destinations
    IN  IF S.elevators[id].isLoading
        THEN addLog([S EXCEPT !.elevators[id].destinationFloors = all,
                              !.elevators[id].passengers = @ + Cardinality(destinations),
                              !.elevators[id].isLoading = FALSE],
                    "system", "finished loading", id, timer.floor)
        ELSE S

\* the setTimeout callback of handlePassengerPickup, `destinations` being what
\* generatePassengerDestinations returned
loadingTimeout(S, timer, destinations) ==
    LET id == timer.elevator
        all == S.elevators[id].destinationFloors \cup destinations
    IN  IF S.elevators[id].isLoading
        THEN addLog([S EXCEPT !.elevators[id].destinationFloors = all,
                              !.elevators[id].passengers = Cardinality(all),
                              !.elevators[id].isLoading = FALSE],
                    "system", "finished loading", id, timer.floor)
        ELSE S

\* mutant: an arrival ends the movement of every elevator
moveTimeout_StopsAll(S, timer) ==
    LET id == timer.elevator
    IN  IF S.elevators[id].isMoving
        THEN addLog([S EXCEPT !.elevators =
                         [e \in DOMAIN S.elevators |->
                             IF e = id
                             THEN [S.elevators[e] EXCEPT !.currentFloor = timer.floor,
                                                         !.isMoving = FALSE]
                             ELSE [S.elevators[e] EXCEPT !.isMoving = FALSE]]],
                    "movement", "arrived", id, timer.floor)
        ELSE S

\* the setTimeout callback of moveElevator
moveTimeout(S, timer) ==
    LET id == timer.elevator
    IN  IF S.elevators[id].isMoving
        THEN addLog([S EXCEPT !.elevators[id].currentFloor = timer.floor,
                              !.elevators[id].isMoving = FALSE],
                    "movement", "arrived", id, timer.floor)
        ELSE S

\* the service state a method leaves becomes the state of the next step
Becomes(S1) ==
    \E S \in {S1} :
        /\ elevators' = S.elevators
        /\ pendingCalls' = S.pendingCalls
        /\ logs' = S.logs
        /\ totalCallsProcessed' = S.totalCallsProcessed
        /\ timers' = S.timers

NoInput == [fn |-> "none"]

NoOutput == [fn |-> "none"]

(***************************************************************************)
(* The system: construction, the interface of the hook, the tick and the   *)
(* timer callbacks                                                         *)
(***************************************************************************)
\* new ElevatorControlService(): the initial state, then the first log entry
Init ==
    /\ elevators = createInitialSystemState.elevators
    /\ pendingCalls = createInitialSystemState.pendingCalls
    /\ logs = <<createLogEntry("system", "initialized", None, None)>>
    /\ isSimulationRunning = createInitialSystemState.isSimulationRunning
    /\ totalCallsProcessed = createInitialSystemState.totalCallsProcessed
    /\ callIdCounter = 0
    /\ timers = << >>
    /\ input = NoInput
    /\ output = NoOutput

\* floors and directions the user asks for: the random floors and one floor
\* beyond each end of the building
InputFloors == {0, FLOORS + 1} \cup {r + 1 : r \in RandomBelow(FLOORS)}

\* handleFloorCall(floor, direction) of the hook: createFloorCall, then addFloorCall
\* unless createFloorCall threw
handleFloorCall(floor, direction) ==
    LET created == createFloorCall(floor, direction, callIdCounter)
    IN  IF created.threw
        THEN UNCHANGED vars
        ELSE /\ callIdCounter' = callIdCounter + 1
             /\ Becomes(addFloorCall(ServiceState, created.call))
             /\ UNCHANGED <<isSimulationRunning, input, output>>

HandleFloorCall == \E floor \in InputFloors, direction \in CALL_DIRECTIONS :
                       handleFloorCall(floor, direction)

\* generateRandomCall() of the service
GenerateRandomCall ==
    /\ \E call \in generateRandomCall(callIdCounter) :
          /\ callIdCounter' = callIdCounter + 1
          /\ Becomes(addFloorCall(ServiceState, call))
    /\ UNCHANGED <<isSimulationRunning, input, output>>

\* the interval callback of the hook: one tick
Tick ==
    /\ \E S \in {ServiceState} : Becomes(processElevatorLogic(S))
    /\ UNCHANGED <<isSimulationRunning, callIdCounter, input, output>>

\* The movement and the loading timers last equally long (MOVE_DURATION_MS =
\* LOADING_DURATION_MS), so the callbacks run in the order they were scheduled:
\* the oldest pending timer fires, after any number of ticks.
\* The oldest pending timer is a movement timer and fires.
MoveTimeout ==
    /\ timers # << >>
    /\ Head(timers).kind = "move"
    /\ Becomes(moveTimeout([ServiceState EXCEPT !.timers = Tail(@)], Head(timers)))
    /\ UNCHANGED <<isSimulationRunning, callIdCounter, input, output>>

\* The oldest pending timer is a loading timer and fires.
LoadingTimeout ==
    /\ timers # << >>
    /\ Head(timers).kind = "loading"
    /\ \E destinations \in generatePassengerDestinations(Head(timers).floor,
                                                          DEFAULT_MAX_DESTINATIONS) :
          Becomes(loadingTimeout([ServiceState EXCEPT !.timers = Tail(@)],
                                 Head(timers), destinations))
    /\ UNCHANGED <<isSimulationRunning, callIdCounter, input, output>>

\* the environment creates at most MaxCalls calls
Next ==
    \/ callIdCounter < MaxCalls /\ HandleFloorCall
    \/ callIdCounter < MaxCalls /\ GenerateRandomCall
    \/ Tick
    \/ MoveTimeout
    \/ LoadingTimeout

Spec == Init /\ [][Next]_vars

(***************************************************************************)
(* The system from a state with every car busy carrying passengers: one    *)
(* call at floor 1 per car, each followed by a tick (the call goes to the  *)
(* first car still Available, which the tick starts loading), then the     *)
(* loading timers fire, each with the same destinations and each followed  *)
(* by a tick, which sends the car off.  From there at most MaxBusyCalls    *)
(* further calls.                                                          *)
(***************************************************************************)
\* the service state after calls 1 .. n at floor 1, a tick after each
RECURSIVE AfterCallAndTick(_)
AfterCallAndTick(n) ==
    IF n = 0
    THEN [elevators |-> createInitialSystemState.elevators,
          pendingCalls |-> createInitialSystemState.pendingCalls,
          logs |-> <<createLogEntry("system", "initialized", None, None)>>,
          totalCallsProcessed |-> createInitialSystemState.totalCallsProcessed,
          timers |-> << >>]
    ELSE Then(AfterCallAndTick(n - 1),
              LAMBDA S : Then(addFloorCall(S, createFloorCall(1, "up", n - 1).call),
                              LAMBDA T : processElevatorLogic(T)))

\* the service state after the n oldest timers of S have fired, a tick after
\* each, a loading timer with `destinations`
RECURSIVE AfterTimerAndTick(_, _, _)
AfterTimerAndTick(S, n, destinations) ==
    IF n = 0 \/ S.timers = << >> THEN S
    ELSE Then(IF Head(S.timers).kind = "loading"
              THEN loadingTimeout([S EXCEPT !.timers = Tail(@)], Head(S.timers), destinations)
              ELSE moveTimeout([S EXCEPT !.timers = Tail(@)], Head(S.timers)),
              LAMBDA T : Then(processElevatorLogic(T),
                              LAMBDA U : AfterTimerAndTick(U, n - 1, destinations)))

InitBusy ==
    /\ \E destinations \in generatePassengerDestinations(1, DEFAULT_MAX_DESTINATIONS) :
          \E S \in {Then(AfterCallAndTick(ELEVATOR_COUNT),
                         LAMBDA T : AfterTimerAndTick(T, ELEVATOR_COUNT, destinations))} :
                /\ elevators = S.elevators
                /\ pendingCalls = S.pendingCalls
                /\ logs = S.logs
                /\ totalCallsProcessed = S.totalCallsProcessed
                /\ timers = S.timers
    /\ isSimulationRunning = createInitialSystemState.isSimulationRunning
    /\ callIdCounter = ELEVATOR_COUNT
    /\ input = NoInput
    /\ output = NoOutput

NextBusy ==
    \/ callIdCounter < ELEVATOR_COUNT + MaxBusyCalls /\ HandleFloorCall
    \/ callIdCounter < ELEVATOR_COUNT + MaxBusyCalls /\ GenerateRandomCall
    \/ Tick
    \/ MoveTimeout
    \/ LoadingTimeout

SpecBusy == InitBusy /\ [][NextBusy]_vars

\* The interval of the hook keeps ticking and every pending timer fires.
FairSpec == Spec /\ WF_vars(Tick) /\ WF_vars(MoveTimeout) /\ WF_vars(LoadingTimeout)

(***************************************************************************)
(* The service called directly, as its tests call it: addFloorCall takes   *)
(* any call object, here a call of the factory with another floor          *)
(* ({ ...createFloorCall(5, 'up'), floor }).                               *)
(***************************************************************************)
AddFloorCall ==
    /\ \E floor \in InputFloors :
          LET created == createFloorCall(FLOORS \div 2, "up", callIdCounter)
          IN  /\ callIdCounter' = callIdCounter + 1
              /\ Becomes(addFloorCall(ServiceState, [created.call EXCEPT !.floor = floor]))
    /\ UNCHANGED <<isSimulationRunning, input, output>>

NextService ==
    \/ callIdCounter < MaxCalls /\ AddFloorCall
    \/ callIdCounter < MaxCalls /\ HandleFloorCall
    \/ callIdCounter < MaxCalls /\ GenerateRandomCall
    \/ Tick
    \/ MoveTimeout
    \/ LoadingTimeout

SpecService == Init /\ [][NextService]_vars

(***************************************************************************)
(* The factory and the dispatcher on their own: the initial state draws    *)
(* the arguments (input), the action applies the function (output).        *)
(***************************************************************************)
\* the service is as constructed and stays so
ServiceUntouched ==
    UNCHANGED <<elevators, pendingCalls, logs, isSimulationRunning, totalCallsProcessed,
                callIdCounter, timers>>

InitWith(inputs) ==
    /\ elevators = createInitialSystemState.elevators
    /\ pendingCalls = createInitialSystemState.pendingCalls
    /\ logs = <<createLogEntry("system", "initialized", None, None)>>
    /\ isSimulationRunning = createInitialSystemState.isSimulationRunning
    /\ totalCallsProcessed = createInitialSystemState.totalCallsProcessed
    /\ callIdCounter = 0
    /\ timers = << >>
    /\ input \in inputs
    /\ output = NoOutput

\* createFloorCall(floor, direction), the id counter standing at `counter`
\* (the static counter of the factory outlives the services: a new service
\* starts with the counter where the calls created before left it)
InitCreateFloorCall ==
    /\ elevators = createInitialSystemState.elevators
    /\ pendingCalls = createInitialSystemState.pendingCalls
    /\ logs = <<createLogEntry("system", "initialized", None, None)>>
    /\ isSimulationRunning = createInitialSystemState.isSimulationRunning
    /\ totalCallsProcessed = createInitialSystemState.totalCallsProcessed
    /\ timers = << >>
    /\ input \in [fn : {"createFloorCall"}, floor : 1 - MaxBeyond .. FLOORS + MaxBeyond,
                   direction : CALL_DIRECTIONS, counter : 0 .. MaxCalls]
    /\ callIdCounter = input.counter
    /\ output = NoOutput

\* createFloorCall throws before it advances the counter, and advances it by
\* one when it returns a call
CreateFloorCall ==
    /\ input.fn = "createFloorCall"
    /\ output = NoOutput
    /\ LET created == createFloorCall(input.floor, input.direction, callIdCounter)
       IN  /\ output' = [fn |-> "createFloorCall", result |-> created]
           /\ callIdCounter' = IF created.threw THEN callIdCounter ELSE callIdCounter + 1
    /\ UNCHANGED <<elevators, pendingCalls, logs, isSimulationRunning, totalCallsProcessed,
                   timers, input>>

SpecCreateFloorCall == InitCreateFloorCall /\ [][CreateFloorCall]_vars

\* the elevators handed to the dispatcher: any floor of the building, any
\* direction, any of isMoving and isLoading, up to MaxProbeDestinations
\* destination floors (the score reads their number only)
ProbeElevators(id) ==
    {[id |-> id, currentFloor |-> floor, direction |-> direction, isMoving |-> moving,
      isLoading |-> loading, destinationFloors |-> 1 .. n, passengers |-> n] :
        floor \in 1 .. FLOORS, direction \in ELEVATOR_STATES, moving \in BOOLEAN,
        loading \in BOOLEAN, n \in 0 .. MaxProbeDestinations}

\* calculateElevatorScore(elevator, call)
InitScore ==
    InitWith([fn : {"calculateElevatorScore"}, elevator : ProbeElevators(1),
              call : {NewCall(1, floor, direction) :
                         floor \in 1 - MaxBeyond .. FLOORS + MaxBeyond,
                         direction \in CALL_DIRECTIONS}])

CalculateElevatorScore ==
    /\ input.fn = "calculateElevatorScore"
    /\ output = NoOutput
    /\ output' = [fn |-> "calculateElevatorScore",
                  result |-> calculateElevatorScore(input.elevator, input.call)]
    /\ UNCHANGED input
    /\ ServiceUntouched

SpecScore == InitScore /\ [][CalculateElevatorScore]_vars

\* the fleets of n elevators, with ids 1 .. n
RECURSIVE ProbeFleets(_)
ProbeFleets(n) ==
    IF n = 0 THEN {<< >>}
    ELSE {Append(fleet, elevator) : fleet \in ProbeFleets(n - 1), elevator \in ProbeElevators(n)}

\* findBestElevator(elevators, call), the call one createFloorCall returns for
\* the ground floor, the middle floor or the top floor
InitFindBest ==
    \E n \in 0 .. MaxFleet :
        InitWith([fn : {"findBestElevator"},
                  elevators : ProbeFleets(n),
                  call : {created.call :
                             created \in {c \in {createFloorCall(floor, direction, 0) :
                                                     floor \in {1, FLOORS \div 2, FLOORS},
                                                     direction \in CALL_DIRECTIONS} :
                                              ~c.threw}}])

FindBestElevator ==
    /\ input.fn = "findBestElevator"
    /\ output = NoOutput
    /\ output' = [fn |-> "findBestElevator",
                  result |-> findBestElevator(input.elevators, input.call)]
    /\ UNCHANGED input
    /\ ServiceUntouched

SpecFindBest == InitFindBest /\ [][FindBestElevator]_vars

\* the sequences of at most n elements of S
RECURSIVE SeqsUpTo(_, _)
SeqsUpTo(S, n) ==
    IF n = 0 THEN {<< >>}
    ELSE LET shorter == SeqsUpTo(S, n - 1)
         IN  shorter \cup {Append(q, x) : q \in {r \in shorter : Len(r) = n - 1}, x \in S}

\* shouldElevatorStop(elevator, floor, pendingCalls): elevator 1 at the ground
\* floor, the middle floor or the top floor, any direction, any destinations
\* among these floors; up to MaxStopCalls pending calls at these floors,
\* unassigned or assigned to elevator 1 or 2
InitShouldStop ==
    \E floor \in {1, FLOORS \div 2, FLOORS}, direction \in ELEVATOR_STATES,
       destinations \in SUBSET {1, FLOORS \div 2, FLOORS} :
        InitWith([fn : {"shouldElevatorStop"},
                  elevator : {[NewElevator(1) EXCEPT !.currentFloor = floor,
                                                    !.direction = direction,
                                                    !.destinationFloors = destinations,
                                                    !.passengers = Cardinality(destinations)]},
                  floor : {floor},
                  pendingCalls :
                      SeqsUpTo({[NewCall(1, f, d) EXCEPT !.assignedElevator = a] :
                                   f \in {1, FLOORS \div 2, FLOORS}, d \in CALL_DIRECTIONS,
                                   a \in {None, 1, 2}},
                               MaxStopCalls)])

ShouldElevatorStop ==
    /\ input.fn = "shouldElevatorStop"
    /\ output = NoOutput
    /\ output' = [fn |-> "shouldElevatorStop",
                  result |-> shouldElevatorStop(input.elevator, input.floor, input.pendingCalls)]
    /\ UNCHANGED input
    /\ ServiceUntouched

SpecShouldStop == InitShouldStop /\ [][ShouldElevatorStop]_vars

\* getNextDestination(elevator, pendingCalls): elevator 1 at any floor, any
\* direction, up to MaxNextDestinations destinations; up to MaxNextCalls pending
\* calls of the factory at any floor, unassigned or assigned to elevator 1 or 2
InitNextDestination ==
    \E floor \in 1 .. FLOORS, direction \in ELEVATOR_STATES,
       destinations \in {D \in SUBSET (1 .. FLOORS) : Cardinality(D) <= MaxNextDestinations} :
        InitWith([fn : {"getNextDestination"},
                  elevator : {[NewElevator(1) EXCEPT !.currentFloor = floor,
                                                    !.direction = direction,
                                                    !.destinationFloors = destinations,
                                                    !.passengers = Cardinality(destinations)]},
                  pendingCalls :
                      SeqsUpTo({[createFloorCall(f, IF f = FLOORS THEN "down" ELSE "up", 0).call
                                    EXCEPT !.assignedElevator = a] :
                                   f \in 1 .. FLOORS, a \in {None, 1, 2}},
                               MaxNextCalls)])

GetNextDestination ==
    /\ input.fn = "getNextDestination"
    /\ output = NoOutput
    /\ output' = [fn |-> "getNextDestination",
                  result |-> getNextDestination(input.elevator, input.pendingCalls)]
    /\ UNCHANGED input
    /\ ServiceUntouched

SpecNextDestination == InitNextDestination /\ [][GetNextDestination]_vars

(***************************************************************************)
(* The log under the operations that only log: toggleSimulation and        *)
(* clearLogs.  input records every entry emitted since construction        *)
(* (emitted) and since the log was last emptied (sinceClear).              *)
(***************************************************************************)
\* mutant: stopping the simulation cancels the pending timers
toggleSimulation_CancelsTimers ==
    /\ isSimulationRunning' = ~isSimulationRunning
    /\ logs' = addLog(ServiceState, "system",
                      IF ~isSimulationRunning THEN "started" ELSE "stopped", None, None).logs
    /\ timers' = IF isSimulationRunning THEN << >> ELSE timers
    /\ UNCHANGED <<elevators, pendingCalls, totalCallsProcessed, callIdCounter, output>>

\* toggleSimulation() of the service
toggleSimulation ==
    /\ isSimulationRunning' = ~isSimulationRunning
    /\ logs' = addLog(ServiceState, "system",
                      IF ~isSimulationRunning THEN "started" ELSE "stopped", None, None).logs
    /\ UNCHANGED <<elevators, pendingCalls, totalCallsProcessed, callIdCounter, timers, output>>

\* mutant: the processed counter is reset with the log
clearLogs_ResetsCounter ==
    /\ logs' = addLog([ServiceState EXCEPT !.logs = << >>], "system", "cleared", None, None).logs
    /\ totalCallsProcessed' = 0
    /\ UNCHANGED <<elevators, pendingCalls, isSimulationRunning, callIdCounter, timers, output>>

\* clearLogs() of the service
clearLogs ==
    /\ logs' = addLog([ServiceState EXCEPT !.logs = << >>], "system", "cleared", None, None).logs
    /\ UNCHANGED <<elevators, pendingCalls, isSimulationRunning, totalCallsProcessed,
                   callIdCounter, timers, output>>

InitLog ==
    InitWith({[fn |-> "log",
               emitted |-> <<createLogEntry("system", "initialized", None, None)>>,
               sinceClear |-> <<createLogEntry("system", "initialized", None, None)>>,
               clears |-> 0]})

ToggleSimulation ==
    /\ Len(input.emitted) < MAX_LOG_ENTRIES + MaxExtraLogs
    /\ toggleSimulation
    /\ input' = [input EXCEPT !.emitted = Append(@, logs'[Len(logs')]),
                              !.sinceClear = Append(@, logs'[Len(logs')])]

ClearLogs ==
    /\ Len(input.emitted) < MAX_LOG_ENTRIES + MaxExtraLogs
    /\ input.clears < MaxClears
    /\ clearLogs
    /\ input' = [input EXCEPT !.emitted = Append(@, logs'[Len(logs')]),
                              !.sinceClear = <<logs'[Len(logs')]>>,
                              !.clears = @ + 1]

NextLog ==
    \/ ToggleSimulation
    \/ ClearLogs

SpecLog == InitLog /\ [][NextLog]_vars

(***************************************************************************)
(* Claims                                                                  *)
(***************************************************************************)
Ids == 1 .. Len(elevators)

\* C1: in every reachable state no car is both Moving and Loading (a tick that
\* starts a pickup for a car does not also start a movement leg for it).
C1_NeverMovingAndLoading ==
    \A id \in Ids : ~(elevators[id].isMoving /\ elevators[id].isLoading)

\* C2: with finitely many calls and with ticks and timers that keep firing, the
\* system drains for good: no pending call, no destination left, every car
\* Available with direction Idle.
Drained ==
    /\ pendingCalls = << >>
    /\ \A id \in Ids : /\ elevators[id].destinationFloors = {}
                       /\ IsAvailable(elevators[id])
                       /\ elevators[id].direction = IDLE

C2_EventuallyDrains == <>[]Drained

\* C2 witness: every call the environment may create was picked up, passengers
\* were delivered, and the system is drained.
C2_Witness ==
    /\ Drained
    /\ totalCallsProcessed = MaxCalls
    /\ \E i \in 1 .. Len(logs) : logs[i].message = "disembarked"

SomeAvailable(fleet) == \E id \in 1 .. Len(fleet) : IsAvailable(fleet[id])

\* ids of the pending calls with no assigned elevator
Unassigned(calls) == {calls[i].id : i \in {j \in 1 .. Len(calls) : calls[j].assignedElevator = None}}

CallIds(calls) == {calls[i].id : i \in 1 .. Len(calls)}

CallAdded == callIdCounter' # callIdCounter

\* C3 as claimed: a call added while no car is Available is enqueued unassigned,
\* and a tick that starts with some car Available leaves no pending call
\* unassigned.
C3_AssignedOnceSomeCarAvailable ==
    [][/\ (CallAdded /\ ~SomeAvailable(elevators))
            => pendingCalls'[Len(pendingCalls')].assignedElevator = None
       /\ (Tick /\ SomeAvailable(elevators)) => Unassigned(pendingCalls') = {}]_vars

\* C3 as amended: a call added while no car is Available is enqueued unassigned;
\* a tick leaves no pending call unassigned if some car is Available once the
\* tick has advanced the cars, and leaves the unassigned calls as they were if
\* every car is Moving or Loading by then.
C3_AssignedOnceSomeCarStaysAvailable ==
    [][/\ (CallAdded /\ ~SomeAvailable(elevators))
            => pendingCalls'[Len(pendingCalls')].assignedElevator = None
       /\ Tick => Unassigned(pendingCalls') =
                      IF SomeAvailable(elevators') THEN {} ELSE Unassigned(pendingCalls)]_vars

\* C3 witness: a call was queued with no car Available and a later tick assigned it.
C3_Witness ==
    /\ \E i \in 1 .. Len(logs) : logs[i].message = "queued"
    /\ \E i \in 1 .. Len(logs) : logs[i].message = "reassigned"
    /\ \E i \in 1 .. Len(pendingCalls) :
          pendingCalls[i].id > ELEVATOR_COUNT /\ pendingCalls[i].assignedElevator # None

\* C4: a call leaves the queue only when its assigned car, Available at the
\* call's floor, picks it up: that car is Loading after the step, and the
\* processed counter grows by one per call removed.  An unassigned call is never
\* removed.
C4_RemovedOnlyByPickup ==
    [][LET removed == {i \in 1 .. Len(pendingCalls) :
                          pendingCalls[i].id \notin CallIds(pendingCalls')}
       IN  /\ \A i \in removed :
                LET call == pendingCalls[i]
                IN  /\ call.assignedElevator # None
                    /\ IsAvailable(elevators[call.assignedElevator])
                    /\ elevators[call.assignedElevator].currentFloor = call.floor
                    /\ elevators'[call.assignedElevator].isLoading
                    /\ elevators'[call.assignedElevator].currentFloor = call.floor
                    /\ \A j \in removed :
                          pendingCalls[j].assignedElevator = call.assignedElevator => j = i
           /\ totalCallsProcessed' = totalCallsProcessed + Cardinality(removed)]_vars

\* C4 witness: two cars have each picked up a call and are Loading.
C4_Witness ==
    /\ totalCallsProcessed = 2
    /\ \E a, b \in Ids : a # b /\ elevators[a].isLoading /\ elevators[b].isLoading

\* C5: addCall appends exactly one entry to the pending list and changes no car;
\* the stored call carries the id of the car findBestCar returns, and no
\* assignment if it returns none.
C5_AddCallAppends ==
    [][CallAdded =>
          LET stored == pendingCalls'[Len(pendingCalls')]
              best == findBestElevator(elevators, stored)
          IN  /\ Len(pendingCalls') = Len(pendingCalls) + 1
              /\ SubSeq(pendingCalls', 1, Len(pendingCalls)) = pendingCalls
              /\ elevators' = elevators
              /\ stored.id = callIdCounter'
              /\ stored.assignedElevator = IF best = NoElevator THEN None ELSE best.id]_vars

\* C5 witness: the queue holds a call stored without assignment and a call
\* stored with one.
C5_Witness ==
    /\ \E i \in 1 .. Len(logs) : logs[i].message = "queued"
    /\ \E i \in 1 .. Len(logs) : logs[i].message = "assigned"
    /\ Unassigned(pendingCalls) # {}

LegalCall(call) ==
    /\ call.floor \in 1 .. FLOORS
    /\ ~(call.floor = 1 /\ call.direction = "down")
    /\ ~(call.floor = FLOORS /\ call.direction = "up")

\* C7: every call in the pending queue has a floor in 1 .. FLOORS and a legal
\* direction: a request with an illegal floor or direction never enters the queue.
C7_PendingCallsLegal == \A i \in 1 .. Len(pendingCalls) : LegalCall(pendingCalls[i])

\* C6: createCall fails for a floor outside 1 .. FLOORS, for Down at floor 1 and
\* for Up at the top floor; for any other floor and direction it returns a call
\* with that floor and direction, an id no earlier call has, and no assigned car.
C6_CreateCallLegality ==
    output.fn = "createFloorCall" =>
        IF \/ input.floor \notin 1 .. FLOORS
           \/ (input.floor = 1 /\ input.direction = "down")
           \/ (input.floor = FLOORS /\ input.direction = "up")
        THEN output.result.threw
        ELSE /\ ~output.result.threw
             /\ output.result.call.floor = input.floor
             /\ output.result.call.direction = input.direction
             /\ output.result.call.id \notin 1 .. input.counter
             /\ output.result.call.assignedElevator = None

\* C6 witness: a Down call was created at the top floor after earlier calls.
C6_Witness ==
    /\ output.fn = "createFloorCall"
    /\ input.floor = FLOORS /\ input.direction = "down" /\ input.counter > 0
    /\ ~output.result.threw

\* the Available elevators of a fleet, by position
AvailableIn(fleet) == {i \in 1 .. Len(fleet) : IsAvailable(fleet[i])}

\* C8: findBestCar returns none exactly when no car is Available; otherwise it
\* returns an Available car that no Available car outscores and that every
\* Available car before it in the fleet scores strictly below.
C8_BestIsFirstMaximum ==
    output.fn = "findBestElevator" =>
        LET fleet == input.elevators
            score(i) == calculateElevatorScore(fleet[i], input.call)
        IN  IF AvailableIn(fleet) = {} THEN output.result = NoElevator
            ELSE \E i \in AvailableIn(fleet) :
                    /\ output.result = fleet[i]
                    /\ \A j \in AvailableIn(fleet) : score(j) <= score(i)
                    /\ \A j \in AvailableIn(fleet) : j < i => score(j) < score(i)

\* C8 witness: two Available cars that differ tie at the maximum and the first
\* one is returned.
C8_Witness ==
    /\ output.fn = "findBestElevator"
    /\ AvailableIn(input.elevators) = {1, 2}
    /\ input.elevators[1].currentFloor # input.elevators[2].currentFloor
    /\ calculateElevatorScore(input.elevators[1], input.call)
           = calculateElevatorScore(input.elevators[2], input.call)
    /\ output.result = input.elevators[1]

\* C9: scoreCar(car, call) is max(0, 100 - 10 * distance), plus 50 if the car's
\* direction is the call's, plus 25 if the car is Idle, plus 75 if the car is
\* Idle or moves in the call's direction from the approach side, minus 5 per
\* destination of the car.
C9_ScoreFormula ==
    output.fn = "calculateElevatorScore" =>
        LET car == input.elevator
            call == input.call
            near == 100 - 10 * Abs(car.currentFloor - call.floor)
            approaching == \/ car.direction = "idle"
                           \/ /\ car.direction = call.direction
                              /\ call.direction = "up" => car.currentFloor <= call.floor
                              /\ call.direction = "down" => car.currentFloor >= call.floor
        IN  output.result = (IF near > 0 THEN near ELSE 0)
                            + (IF car.direction = call.direction THEN 50 ELSE 0)
                            + (IF car.direction = "idle" THEN 25 ELSE 0)
                            + (IF approaching THEN 75 ELSE 0)
                            - 5 * Cardinality(car.destinationFloors)

\* C9 witness: a car going up with a destination, two floors below an Up call,
\* scores 80 + 50 + 75 - 5.
C9_Witness ==
    /\ output.fn = "calculateElevatorScore"
    /\ input.elevator.direction = "up" /\ input.call.direction = "up"
    /\ input.call.floor = input.elevator.currentFloor + 2
    /\ Cardinality(input.elevator.destinationFloors) = 1
    /\ output.result = 200

\* C10: when two Available cars are both Idle with as many destinations and one
\* is strictly nearer to the call's floor, findBestCar does not return the
\* farther one.
C10_NearerIdleCarPreferred ==
    output.fn = "findBestElevator" =>
        LET fleet == input.elevators
            distance(i) == Abs(fleet[i].currentFloor - input.call.floor)
        IN  \A i, j \in AvailableIn(fleet) :
                (/\ fleet[i].direction = IDLE /\ fleet[j].direction = IDLE
                 /\ Cardinality(fleet[i].destinationFloors)
                       = Cardinality(fleet[j].destinationFloors)
                 /\ distance(i) < distance(j))
                    => output.result # fleet[j]

\* C10 witness: idle cars at floors 8 and 4, in this order, and a call Up at
\* floor 5: the car at floor 4 is returned.
C10_Witness ==
    /\ output.fn = "findBestElevator"
    /\ Len(input.elevators) = 2
    /\ \A i \in 1 .. 2 : /\ IsAvailable(input.elevators[i])
                          /\ input.elevators[i].direction = IDLE
                          /\ input.elevators[i].destinationFloors = {}
    /\ input.elevators[1].currentFloor = 8 /\ input.elevators[2].currentFloor = 4
    /\ input.call.floor = 5 /\ input.call.direction = "up"
    /\ output.result = input.elevators[2]

\* C11: an Available car travelling in the call's direction on the approach
\* side of the call's floor is chosen over an Available car travelling in the
\* opposite direction with as many destinations, whatever their distances.
C11_SameDirectionPreferred ==
    output.fn = "findBestElevator" =>
        LET fleet == input.elevators
            call == input.call
            approaching(i) == /\ fleet[i].direction = call.direction
                              /\ IF call.direction = "up"
                                 THEN fleet[i].currentFloor <= call.floor
                                 ELSE fleet[i].currentFloor >= call.floor
            opposite(j) == fleet[j].direction \notin {IDLE, call.direction}
        IN  \A i, j \in AvailableIn(fleet) :
                (/\ approaching(i) /\ opposite(j)
                 /\ Cardinality(fleet[i].destinationFloors)
                       = Cardinality(fleet[j].destinationFloors))
                    => output.result # fleet[j]

\* C11 witness: car B at floor 4 going down, car A at floor 3 going up, a call
\* Up at floor 5: car A is returned though car B is closer and first in the fleet.
C11_Witness ==
    /\ output.fn = "findBestElevator"
    /\ Len(input.elevators) = 2
    /\ \A i \in 1 .. 2 : /\ IsAvailable(input.elevators[i])
                          /\ input.elevators[i].destinationFloors = {}
    /\ input.elevators[1].currentFloor = 4 /\ input.elevators[1].direction = "down"
    /\ input.elevators[2].currentFloor = 3 /\ input.elevators[2].direction = "up"
    /\ input.call.floor = 5 /\ input.call.direction = "up"
    /\ output.result = input.elevators[2]

\* C12: calls are distributed across the available elevators: among Available
\* cars that differ in their load only the more loaded one is not chosen, and
\* the calls added one after another to a fleet of identical Available idle
\* cars are not all assigned to the same car.
C12_CallsDistributed ==
    /\ \A k \in 1 .. Len(pendingCalls) :
          \A i, j \in AvailableIn(elevators) :
              (/\ [elevators[i] EXCEPT !.id = j, !.destinationFloors = {}, !.passengers = 0]
                    = [elevators[j] EXCEPT !.destinationFloors = {}, !.passengers = 0]
               /\ Cardinality(elevators[i].destinationFloors)
                     < Cardinality(elevators[j].destinationFloors))
                  => findBestElevator(elevators, pendingCalls[k]) # elevators[j]
    /\ (elevators = createInitialElevators /\ Len(pendingCalls) > 1)
          => \E k, l \in 1 .. Len(pendingCalls) :
                pendingCalls[k].assignedElevator # pendingCalls[l].assignedElevator

\* C13: shouldStop(car, floor, pending) is true exactly when the floor is one of
\* the car's destinations or some pending call at the floor is assigned to the
\* car and the car is Idle or goes the call's way.
C13_ShouldStopExactly ==
    output.fn = "shouldElevatorStop" =>
        LET car == input.elevator
            pending == {input.pendingCalls[i] : i \in 1 .. Len(input.pendingCalls)}
            mine == {call \in pending : /\ call.floor = input.floor
                                        /\ call.assignedElevator = car.id}
        IN  output.result <=>
                \/ input.floor \in car.destinationFloors
                \/ {call \in mine : car.direction = "idle"} # {}
                \/ {call \in mine : call.direction = car.direction} # {}

\* C13 witness: the floor is no destination and its calls are one unassigned
\* and one assigned to another car: the car does not stop.
C13_Witness ==
    /\ output.fn = "shouldElevatorStop"
    /\ input.floor \notin input.elevator.destinationFloors
    /\ Len(input.pendingCalls) = 2
    /\ \A i \in 1 .. 2 : input.pendingCalls[i].floor = input.floor
    /\ input.pendingCalls[1].assignedElevator = None
    /\ input.pendingCalls[2].assignedElevator = 2
    /\ output.result = FALSE

\* D of nextDestination: the car's destinations and the floors of the pending
\* calls assigned to the car
AllDestinations(car, pending) ==
    car.destinationFloors
        \cup {pending[i].floor : i \in {j \in 1 .. Len(pending) :
                                             pending[j].assignedElevator = car.id}}

\* C14: a car with direction Up gets the smallest element of D strictly above
\* its floor whenever there is one, a car with direction Down the largest
\* element of D strictly below its floor whenever there is one.
C14_ContinuesInDirection ==
    output.fn = "getNextDestination" =>
        LET car == input.elevator
            D == AllDestinations(car, input.pendingCalls)
            above == {d \in D : d > car.currentFloor}
            below == {d \in D : d < car.currentFloor}
        IN  /\ (car.direction = "up" /\ above # {})
                  => (output.result \in above /\ \A d \in above : output.result <= d)
            /\ (car.direction = "down" /\ below # {})
                  => (output.result \in below /\ \A d \in below : output.result >= d)

\* C14 witness: a car going up at floor 3 with destinations {2, 5} gets 5.
C14_Witness ==
    /\ output.fn = "getNextDestination"
    /\ input.elevator.currentFloor = 3 /\ input.elevator.direction = "up"
    /\ input.elevator.destinationFloors = {2, 5}
    /\ input.pendingCalls = << >>
    /\ output.result = 5

\* C15: nextDestination returns none exactly when D is empty and otherwise an
\* element of D; for an Idle car and for a car with nothing of D ahead in its
\* direction it is the element of D nearest to the car's floor, the lower floor
\* of two equally near.
C15_NearestOtherwise ==
    output.fn = "getNextDestination" =>
        LET car == input.elevator
            D == AllDestinations(car, input.pendingCalls)
            ahead == IF car.direction = "up" THEN {d \in D : d > car.currentFloor}
                     ELSE IF car.direction = "down" THEN {d \in D : d < car.currentFloor}
                     ELSE {}
            far(d) == Abs(d - car.currentFloor)
        IN  /\ output.result = None <=> D = {}
            /\ D # {} => output.result \in D
            /\ (D # {} /\ ahead = {})
                  => \A d \in D : \/ far(output.result) < far(d)
                                   \/ (far(output.result) = far(d) /\ output.result <= d)

\* C15 witness: an Idle car at floor 5 with a destination at 7 and a call
\* assigned to it at 3 gets 3.
C15_Witness ==
    /\ output.fn = "getNextDestination"
    /\ input.elevator.currentFloor = 5 /\ input.elevator.direction = IDLE
    /\ input.elevator.destinationFloors = {7}
    /\ Len(input.pendingCalls) = 1
    /\ input.pendingCalls[1].floor = 3 /\ input.pendingCalls[1].assignedElevator = 1
    /\ output.result = 3

\* floors the movement timers pending for elevator id lead to
MoveTargets(pending, id) ==
    {pending[k].floor : k \in {l \in 1 .. Len(pending) :
                                   pending[l].kind = "move" /\ pending[l].elevator = id}}

\* C16: an Available car with direction Up (Down) that still has a passenger
\* destination above (below) its floor starts its next movement leg upwards
\* (downwards): it never departs the other way.
C16_DepartsInDirection ==
    [][\A id \in Ids :
          LET car == elevators[id]
              above == {d \in car.destinationFloors : d > car.currentFloor}
              below == {d \in car.destinationFloors : d < car.currentFloor}
              departs == IsAvailable(car) /\ elevators'[id].isMoving
          IN  /\ (departs /\ car.direction = "up" /\ above # {})
                    => /\ elevators'[id].direction = "up"
                       /\ \A target \in MoveTargets(timers', id) : target > car.currentFloor
              /\ (departs /\ car.direction = "down" /\ below # {})
                    => /\ elevators'[id].direction = "down"
                       /\ \A target \in MoveTargets(timers', id) : target < car.currentFloor]_vars

\* C16 witness: a car that dropped passengers off on its way up has left again
\* upwards for the destination it still has, though a call assigned to it waits
\* below.
C16_Witness ==
    \E id \in Ids :
        /\ elevators[id].isMoving /\ elevators[id].direction = "up"
        /\ MoveTargets(timers, id) \cap elevators[id].destinationFloors # {}
        /\ \A target \in MoveTargets(timers, id) : target > elevators[id].currentFloor
        /\ \E i \in 1 .. Len(logs) : /\ logs[i].message = "disembarked"
                                      /\ logs[i].elevatorId = id
                                      /\ logs[i].floor = elevators[id].currentFloor
        /\ \E k \in 1 .. Len(pendingCalls) :
              /\ pendingCalls[k].assignedElevator = id
              /\ pendingCalls[k].floor < elevators[id].currentFloor

\* C17: when a tick processes an Available car whose floor is one of its
\* destinations, the stop-handling pass removes the floor from the destinations,
\* sets the passenger count to the number of destinations left and sets the
\* direction to Idle if none is left; the tick leaves the car with these
\* destinations and this count, and Idle unless it departs for a call.
C17_DropoffAtDestination ==
    [][Tick =>
          \A id \in Ids :
              LET car == elevators[id]
                  left == car.destinationFloors \ {car.currentFloor}
                  pass == handleElevatorAtFloor(ServiceState, id).elevators[id]
              IN  (IsAvailable(car) /\ car.currentFloor \in car.destinationFloors)
                      => /\ pass.destinationFloors = left
                         /\ pass.passengers = Cardinality(left)
                         /\ left = {} => pass.direction = IDLE
                         /\ elevators'[id].destinationFloors = left
                         /\ elevators'[id].passengers = Cardinality(left)
                         /\ left = {} => (elevators'[id].direction = IDLE
                                             \/ elevators'[id].isMoving)]_vars

\* C17 witness: a car has dropped its last passengers off at its floor: no
\* destination, no passenger, direction Idle.
C17_Witness ==
    \E id \in Ids :
        /\ logs[Len(logs)].message = "idle" /\ logs[Len(logs)].elevatorId = id
        /\ logs[Len(logs) - 1].message = "disembarked"
        /\ logs[Len(logs) - 1].floor = elevators[id].currentFloor
        /\ elevators[id].destinationFloors = {} /\ elevators[id].passengers = 0
        /\ elevators[id].direction = IDLE /\ IsAvailable(elevators[id])

\* the timers pending for elevator id, in scheduling order
TimersOf(pending, id) == SelectSeq(pending, LAMBDA timer : timer.elevator = id)

\* C18: a tick leaves every car that is Moving or Loading when it starts as it
\* is (floor, direction, movement state, destinations, passengers) and starts
\* no timer for it.
C18_BusyCarsSkipped ==
    [][Tick =>
          \A id \in Ids :
              ~IsAvailable(elevators[id])
                  => /\ elevators'[id] = elevators[id]
                     /\ TimersOf(timers', id) = TimersOf(timers, id)]_vars

\* C18 witness: a tick has sent elevator 2 off while elevator 1, Loading since
\* an earlier tick, is as it was.
C18_Witness ==
    /\ elevators[1].isLoading /\ ~elevators[1].isMoving
    /\ elevators[1].currentFloor = 1 /\ elevators[1].direction = IDLE
    /\ elevators[2].isMoving
    /\ logs[Len(logs)].message = "moving" /\ logs[Len(logs)].elevatorId = 2
    /\ Len(TimersOf(timers, 1)) = 1

\* C19: with no pending call and every car Available, Idle and without
\* destinations, a tick leaves the whole state as it is: fleet, queue, processed
\* counter, log and timers.
C19_DrainedTickFixedPoint ==
    [][(Drained /\ Tick) =>
          /\ elevators' = elevators
          /\ pendingCalls' = pendingCalls
          /\ totalCallsProcessed' = totalCallsProcessed
          /\ logs' = logs
          /\ timers' = timers]_vars

\* C19 witness: the system is drained after work, a car resting away from the
\* ground floor and no timer pending.
C19_Witness ==
    /\ Drained
    /\ timers = << >>
    /\ totalCallsProcessed > 0
    /\ \E id \in Ids : elevators[id].currentFloor # 1
    /\ processElevatorLogic(ServiceState) = ServiceState

\* the n newest entries of a sequence of entries, in order
Newest(entries, n) == SubSeq(entries, Len(entries) - n + 1, Len(entries))

\* C20 as claimed: the log never holds more than MAX_LOG_ENTRIES entries, and
\* once more than MAX_LOG_ENTRIES events were emitted it holds exactly the
\* MAX_LOG_ENTRIES most recently emitted ones, in emission order.
C20_LogHoldsNewestEmitted ==
    /\ Len(logs) <= MAX_LOG_ENTRIES
    /\ Len(input.emitted) > MAX_LOG_ENTRIES
          => logs = Newest(input.emitted, MAX_LOG_ENTRIES)

\* C20 as amended: the log never holds more than MAX_LOG_ENTRIES entries, and
\* once more than MAX_LOG_ENTRIES events were emitted since the log was last
\* cleared it holds exactly the MAX_LOG_ENTRIES most recent ones, in emission
\* order.
C20_LogHoldsNewestSinceClear ==
    /\ Len(logs) <= MAX_LOG_ENTRIES
    /\ Len(input.sinceClear) > MAX_LOG_ENTRIES
          => logs = Newest(input.sinceClear, MAX_LOG_ENTRIES)

\* C20 witness: more than MAX_LOG_ENTRIES events were emitted since the log was
\* cleared and the log is full.
C20_Witness ==
    /\ input.clears > 0
    /\ Len(input.sinceClear) > MAX_LOG_ENTRIES
    /\ Len(logs) = MAX_LOG_ENTRIES
    /\ logs[1] # input.sinceClear[1]

(***************************************************************************)
(* The service read through getState.  A snapshot is the value getState    *)
(* returned together with the kinds of object it shares with the live      *)
(* state; a write of the reader to a shared object is a write to the live  *)
(* state too.  The reader keeps the latest snapshot in output.             *)
(***************************************************************************)
\* mutant: the elevators are spread without a new Set of their destinations
getState_SharesDestinationSets ==
    [fn |-> "getState",
     state |-> [elevators |-> elevators, pendingCalls |-> pendingCalls, logs |-> logs,
                isSimulationRunning |-> isSimulationRunning,
                totalCallsProcessed |-> totalCallsProcessed],
     shared |-> {"destinationFloors", "call", "logEntry"},
     writes |-> 0]

\* getState(): a new state object, a new elevators array of new elevator objects
\* with new destination sets, new pendingCalls and logs arrays of the same call
\* and log entry objects
getState ==
    [fn |-> "getState",
     state |-> [elevators |-> elevators, pendingCalls |-> pendingCalls, logs |-> logs,
                isSimulationRunning |-> isSimulationRunning,
                totalCallsProcessed |-> totalCallsProcessed],
     shared |-> {"call", "logEntry"},
     writes |-> 0]

GetState ==
    /\ output' = getState
    /\ UNCHANGED input
    /\ ServiceUntouched

\* the reader holds a snapshot it may still write to
HoldsSnapshot == output.fn = "getState" /\ output.writes < MaxWrites

\* the rest of the service over a write of the reader
ReaderLeaves == UNCHANGED <<isSimulationRunning, totalCallsProcessed, callIdCounter, timers,
                            input>>

\* elevator.currentFloor = floor; elevator.isMoving = true, on an elevator of the
\* snapshot
WriteElevatorFields ==
    /\ HoldsSnapshot
    /\ \E id \in 1 .. Len(output.state.elevators), floor \in {1, FLOORS \div 2} :
          /\ output' = [output EXCEPT !.state.elevators[id].currentFloor = floor,
                                      !.state.elevators[id].isMoving = TRUE,
                                      !.writes = @ + 1]
          /\ elevators' = IF "elevator" \in output.shared
                          THEN [elevators EXCEPT ![id].currentFloor = floor,
                                                 ![id].isMoving = TRUE]
                          ELSE elevators
    /\ UNCHANGED <<pendingCalls, logs>>
    /\ ReaderLeaves

\* elevator.destinationFloors.add(floor); elevator.passengers = 1
AddDestination ==
    /\ HoldsSnapshot
    /\ \E id \in 1 .. Len(output.state.elevators), floor \in {1, FLOORS \div 2} :
          /\ output' = [output EXCEPT !.state.elevators[id].destinationFloors = @ \cup {floor},
                                      !.state.elevators[id].passengers = 1,
                                      !.writes = @ + 1]
          /\ elevators' =
                [elevators EXCEPT
                    ![id].destinationFloors =
                        IF "destinationFloors" \in output.shared THEN @ \cup {floor} ELSE @,
                    ![id].passengers = IF "elevator" \in output.shared THEN 1 ELSE @]
    /\ UNCHANGED <<pendingCalls, logs>>
    /\ ReaderLeaves

\* elevator.destinationFloors.clear()
ClearDestinations ==
    /\ HoldsSnapshot
    /\ \E id \in 1 .. Len(output.state.elevators) :
          /\ output.state.elevators[id].destinationFloors # {}
          /\ output' = [output EXCEPT !.state.elevators[id].destinationFloors = {},
                                      !.writes = @ + 1]
          /\ elevators' =
                [elevators EXCEPT
                    ![id].destinationFloors =
                        IF "destinationFloors" \in output.shared THEN {} ELSE @]
    /\ UNCHANGED <<pendingCalls, logs>>
    /\ ReaderLeaves

\* state.pendingCalls.push(call), the call a new one of the factory
\* (createFloorCall advances the counter of the factory)
PushPendingCall ==
    /\ HoldsSnapshot
    /\ \E call \in {createFloorCall(FLOORS \div 2, "up", callIdCounter).call} :
          /\ output' = [output EXCEPT !.state.pendingCalls = Append(@, call),
                                      !.writes = @ + 1]
          /\ pendingCalls' = IF "pendingCalls" \in output.shared
                             THEN Append(pendingCalls, call) ELSE pendingCalls
    /\ callIdCounter' = callIdCounter + 1
    /\ UNCHANGED <<elevators, logs, isSimulationRunning, totalCallsProcessed, timers,
                   input>>

\* state.pendingCalls.shift()
ShiftPendingCall ==
    /\ HoldsSnapshot
    /\ output.state.pendingCalls # << >>
    /\ output' = [output EXCEPT !.state.pendingCalls = Tail(@), !.writes = @ + 1]
    /\ pendingCalls' = IF "pendingCalls" \in output.shared /\ pendingCalls # << >>
                       THEN Tail(pendingCalls) ELSE pendingCalls
    /\ UNCHANGED <<elevators, logs>>
    /\ ReaderLeaves

\* state.logs.push(entry), the entry a new one of the factory
PushLog ==
    /\ HoldsSnapshot
    /\ \E entry \in {createLogEntry("system", "external", None, None)} :
          /\ output' = [output EXCEPT !.state.logs = Append(@, entry), !.writes = @ + 1]
          /\ logs' = IF "logs" \in output.shared THEN Append(logs, entry) ELSE logs
    /\ UNCHANGED <<elevators, pendingCalls>>
    /\ ReaderLeaves

\* state.logs.pop()
PopLog ==
    /\ HoldsSnapshot
    /\ output.state.logs # << >>
    /\ output' = [output EXCEPT !.state.logs = SubSeq(@, 1, Len(@) - 1), !.writes = @ + 1]
    /\ logs' = IF "logs" \in output.shared /\ logs # << >>
               THEN SubSeq(logs, 1, Len(logs) - 1) ELSE logs
    /\ UNCHANGED <<elevators, pendingCalls>>
    /\ ReaderLeaves

\* the calls the service was given so far: those it holds and those it served
GivenCalls == totalCallsProcessed + Len(pendingCalls)

NextSnapshot ==
    \/ GivenCalls < MaxSnapshotCalls /\ callIdCounter < MaxSnapshotIds /\ HandleFloorCall
    \/ GivenCalls < MaxSnapshotCalls /\ callIdCounter < MaxSnapshotIds /\ GenerateRandomCall
    \/ Tick
    \/ MoveTimeout
    \/ LoadingTimeout
    \/ GetState
    \/ WriteElevatorFields
    \/ AddDestination
    \/ ClearDestinations
    \/ callIdCounter < MaxSnapshotIds /\ PushPendingCall
    \/ ShiftPendingCall
    \/ PushLog
    \/ PopLog

SpecSnapshot == Init /\ [][NextSnapshot]_vars

\* the state the service holds and every later tick, addFloorCall and getState
\* reads
LiveState ==
    [elevators |-> elevators, pendingCalls |-> pendingCalls, logs |-> logs,
     isSimulationRunning |-> isSimulationRunning,
     totalCallsProcessed |-> totalCallsProcessed]

\* C21: a write of the reader to a snapshot getState returned (a car's fields,
\* its destination set, entries added to or removed from the pending and log
\* lists) leaves the state of the service and its timers as they were, so every
\* later tick, addFloorCall and getState gives what it would have given; and a
\* getState returns the state of the service, whatever was written to earlier
\* snapshots.
C21_SnapshotIndependent ==
    [][/\ (output.fn = "getState" /\ output'.fn = "getState"
           /\ output'.writes = output.writes + 1)
          => /\ LiveState' = LiveState
             /\ timers' = timers
             /\ processElevatorLogic(ServiceState)' = processElevatorLogic(ServiceState)
       /\ (output' # output /\ output'.fn = "getState" /\ output'.writes = 0)
          => output'.state = LiveState]_vars

\* C21 witness: the reader wrote to a snapshot, whose cars and lists now differ
\* from those of the service, and the service went on (a car is moving)
C21_Witness ==
    /\ output.fn = "getState"
    /\ output.writes = MaxWrites
    /\ \E id \in Ids : output.state.elevators[id].destinationFloors
                           # elevators[id].destinationFloors
    /\ Len(output.state.pendingCalls) # Len(pendingCalls)
    /\ \E id \in Ids : elevators[id].isMoving

(***************************************************************************)
(* The system with the simulation toggled and the log cleared while calls  *)
(* come in, the interval ticks and the timers fire.  input counts the      *)
(* calls of toggleSimulation and of clearLogs.                             *)
(***************************************************************************)
InitControl == InitWith({[fn |-> "control", toggles |-> 0, clears |-> 0]})

\* toggleSimulation() of the hook
SimulationToggle ==
    /\ input.toggles < MaxToggles
    /\ toggleSimulation
    /\ input' = [input EXCEPT !.toggles = @ + 1]

\* clearLogs() of the hook
LogsClear ==
    /\ input.clears < MaxClears
    /\ clearLogs
    /\ input' = [input EXCEPT !.clears = @ + 1]

NextControl ==
    \/ callIdCounter < MaxControlCalls /\ HandleFloorCall
    \/ callIdCounter < MaxControlCalls /\ GenerateRandomCall
    \/ Tick
    \/ MoveTimeout
    \/ LoadingTimeout
    \/ SimulationToggle
    \/ LogsClear

SpecControl == InitControl /\ [][NextControl]_vars

\* C22: toggleSimulation flips the running flag and appends one system event
\* to the log; the fleet, the pending queue, the processed counter and the
\* pending timers stay as they are; after every second toggle the flag is back
\* at what it was at construction; and a timer that fires completes its leg
\* (the car arrives at the target floor, or finishes loading), whether the
\* simulation is running or not.
C22_ToggleOnlyFlips ==
    [][/\ input'.toggles = input.toggles + 1
          => /\ isSimulationRunning' = ~isSimulationRunning
             /\ Len(logs') = Len(logs) + 1
             /\ SubSeq(logs', 1, Len(logs)) = logs
             /\ logs'[Len(logs')].type = "system"
             /\ logs'[Len(logs')].message \in {"started", "stopped"}
             /\ UNCHANGED <<elevators, pendingCalls, totalCallsProcessed, timers>>
       /\ isSimulationRunning' = (input'.toggles % 2 = 1)
       /\ (timers # << >> /\ timers' = Tail(timers))
          => LET timer == Head(timers)
                 before == elevators[timer.elevator]
                 after == elevators'[timer.elevator]
             IN  /\ (timer.kind = "move" /\ before.isMoving)
                    => after.currentFloor = timer.floor /\ ~after.isMoving
                 /\ (timer.kind = "loading" /\ before.isLoading)
                    => ~after.isLoading /\ after.passengers >= before.passengers]_vars

\* C22 witness: the simulation was started and stopped again with a car on its
\* way, and the car arrived after the stop
C22_Witness ==
    /\ input.fn = "control"
    /\ input.toggles = 2
    /\ ~isSimulationRunning
    /\ \E i, j \in 1 .. Len(logs) :
          /\ i < j
          /\ logs[i].message = "stopped"
          /\ logs[j].message = "arrived"
          /\ \E k \in 1 .. i - 1 : logs[k].message = "moving"

\* C23: clearLogs leaves the log holding exactly one entry, the system event
\* that the logs were cleared, and leaves the fleet, the pending queue, the
\* running flag, the processed counter and the pending timers as they are.
C23_ClearLogsLeavesOneEntry ==
    [][input'.clears = input.clears + 1
       => /\ Len(logs') = 1
          /\ logs'[1] = createLogEntry("system", "cleared", None, None)
          /\ UNCHANGED <<elevators, pendingCalls, isSimulationRunning,
                         totalCallsProcessed, timers>>]_vars

\* C23 witness: the log was cleared with the simulation running, a call
\* processed and a timer pending, and holds the one entry
C23_Witness ==
    /\ input.fn = "control"
    /\ input.clears = 1
    /\ logs = <<createLogEntry("system", "cleared", None, None)>>
    /\ isSimulationRunning
    /\ totalCallsProcessed > 0
    /\ timers # << >>

\* C24: in every state generateRandomCall returns a call, a legal one, which
\* addFloorCall adds to the pending queue, and the
\* step that creates a call appends exactly one call to the pending queue,
\* the others staying as they are; the call is legal: its floor is in
\* 1 .. FLOORS, its direction is up at floor 1 and down at floor FLOORS.
C24_RandomCallAddsOneLegalCall ==
    [][/\ generateRandomCall(callIdCounter) # {}
       /\ \A call \in generateRandomCall(callIdCounter) :
             /\ call.floor \in 1 .. FLOORS
             /\ call.floor = 1 => call.direction = "up"
             /\ call.floor = FLOORS => call.direction = "down"
             /\ Len(addFloorCall(ServiceState, call).pendingCalls) = Len(pendingCalls) + 1
       /\ callIdCounter' = callIdCounter + 1
          => /\ Len(pendingCalls') = Len(pendingCalls) + 1
             /\ SubSeq(pendingCalls', 1, Len(pendingCalls)) = pendingCalls
             /\ LET call == pendingCalls'[Len(pendingCalls')]
                IN  /\ call.id = callIdCounter'
                    /\ call.floor \in 1 .. FLOORS
                    /\ call.direction \in CALL_DIRECTIONS
                    /\ call.floor = 1 => call.direction = "up"
                    /\ call.floor = FLOORS => call.direction = "down"]_vars

\* C24 witness: calls were generated at the ground floor and at the top floor,
\* one of them with no car available (it waits unassigned)
C24_Witness ==
    /\ \E i \in 1 .. Len(pendingCalls) :
          /\ pendingCalls[i].floor = FLOORS
          /\ pendingCalls[i].direction = "down"
          /\ pendingCalls[i].id > ELEVATOR_COUNT
          /\ pendingCalls[i].assignedElevator = None
    /\ callIdCounter = ELEVATOR_COUNT + MaxBusyCalls

(***************************************************************************)
(* generatePassengerDestinations on its own                                *)
(***************************************************************************)
\* generatePassengerDestinations(currentFloor, maxDestinations), from any floor
\* of the building, for up to the default number of destinations
InitDestinations ==
    InitWith([fn : {"generatePassengerDestinations"}, currentFloor : 1 .. FLOORS,
              maxDestinations : 1 .. DEFAULT_MAX_DESTINATIONS])

GeneratePassengerDestinations ==
    /\ input.fn = "generatePassengerDestinations"
    /\ output = NoOutput
    /\ \E destinations \in generatePassengerDestinations(input.currentFloor,
                                                          input.maxDestinations) :
          output' = [fn |-> "generatePassengerDestinations", result |-> destinations]
    /\ UNCHANGED input
    /\ ServiceUntouched

SpecDestinations == InitDestinations /\ [][GeneratePassengerDestinations]_vars

\* C25: the set generatePassengerDestinations(currentFloor, maxDestinations)
\* returns holds floors of 1 .. FLOORS only, does not hold currentFloor, has at
\* most maxDestinations elements and, the building having two floors or more,
\* is not empty.
C25_DestinationsLegalAndNotEmpty ==
    output.fn = "generatePassengerDestinations"
    => /\ output.result \subseteq 1 .. FLOORS
       /\ input.currentFloor \notin output.result
       /\ Cardinality(output.result) <= input.maxDestinations
       /\ FLOORS >= 2 => output.result # {}

\* C26: until the first call is created the state is the one of construction:
\* the fleet has exactly ELEVATOR_COUNT cars with the ids 1 .. ELEVATOR_COUNT,
\* every car at floor 1, idle, neither moving nor loading, with no destination
\* and no passenger; no call is pending, the simulation is not running and the
\* processed counter is 0.
C26_InitialState ==
    callIdCounter = 0
    => /\ Len(elevators) = ELEVATOR_COUNT
       /\ \A index \in 1 .. Len(elevators) :
             /\ elevators[index].id = index
             /\ elevators[index].currentFloor = 1
             /\ elevators[index].direction = IDLE
             /\ ~elevators[index].isMoving
             /\ ~elevators[index].isLoading
             /\ elevators[index].destinationFloors = {}
             /\ elevators[index].passengers = 0
       /\ pendingCalls = << >>
       /\ ~isSimulationRunning
       /\ totalCallsProcessed = 0
       /\ timers = << >>

\* C26 witness: the state right after construction, only the initialization
\* logged
C26_Witness ==
    /\ callIdCounter = 0
    /\ logs = <<createLogEntry("system", "initialized", None, None)>>
    /\ Len(elevators) = ELEVATOR_COUNT

\* C27: at the end of every tick every car whose direction is idle has an empty
\* destination set.
C27_IdleHasNoDestinationAfterTick ==
    LET T == processElevatorLogic(ServiceState)
    IN  \A id \in Ids :
            T.elevators[id].direction = IDLE => T.elevators[id].destinationFloors = {}

\* the number of pending timers of a kind ("move", "loading") of elevator id
PendingTimers(kind, id) ==
    Cardinality({i \in 1 .. Len(timers) : timers[i].kind = kind /\ timers[i].elevator = id})

\* C28: a car is moving exactly while one movement timer is pending for it and
\* loading exactly while one loading timer is pending for it, no car ever has
\* two pending timers of the same kind, and so a car is Available (neither
\* moving nor loading) if and only if no timer is pending for it.
C28_BusyIffTimerPending ==
    \A id \in Ids :
        /\ PendingTimers("move", id) = (IF elevators[id].isMoving THEN 1 ELSE 0)
        /\ PendingTimers("loading", id) = (IF elevators[id].isLoading THEN 1 ELSE 0)
        /\ IsAvailable(elevators[id])
           <=> PendingTimers("move", id) + PendingTimers("loading", id) = 0

\* C28 witness: a car is loading and another is moving, each with its one
\* timer pending, while a third is Available with none
C28_Witness ==
    \E a, b, c \in Ids :
        /\ elevators[a].isLoading /\ ~elevators[a].isMoving
        /\ PendingTimers("loading", a) = 1
        /\ elevators[b].isMoving /\ ~elevators[b].isLoading
        /\ PendingTimers("move", b) = 1
        /\ IsAvailable(elevators[c])
        /\ PendingTimers("move", c) + PendingTimers("loading", c) = 0

\* C29: in every reachable state the passenger count of every car equals the
\* size of its destination set.
C29_PassengersAreDestinations ==
    \A id \in Ids : elevators[id].passengers = Cardinality(elevators[id].destinationFloors)

\* C29 witness: a car that took passengers twice and let some off carries
\* passengers for as many floors as its destination set holds
C29_Witness ==
    \E id \in Ids :
        /\ elevators[id].passengers = Cardinality(elevators[id].destinationFloors)
        /\ elevators[id].passengers > 0
        /\ \E i, j, k \in 1 .. Len(logs) :
              /\ i < j /\ j < k
              /\ logs[i].message = "finished loading" /\ logs[i].elevatorId = id
              /\ logs[j].message = "disembarked" /\ logs[j].elevatorId = id
              /\ logs[k].message = "finished loading" /\ logs[k].elevatorId = id

\* the movement step of a tick for the Available car id, from the service
\* state S: with no next destination, or the current floor as next destination,
\* the car stays where it is, not moving, and its direction is idle, nothing
\* else changing if it was idle already; otherwise the car is moving, up to a
\* target above and down to a target below, still at its floor, with one
\* movement timer for the target started
MovementStepOf(S, id) ==
    LET car == S.elevators[id]
        target == getNextDestination(car, S.pendingCalls)
        U == moveElevatorToNextDestination(S, id)
    IN  IF target = None \/ target = car.currentFloor
        THEN /\ U.elevators = [S.elevators EXCEPT ![id].direction = IDLE]
             /\ U.timers = S.timers
             /\ U.pendingCalls = S.pendingCalls
             /\ car.direction = IDLE => U = S
        ELSE /\ U.elevators =
                    [S.elevators EXCEPT ![id].isMoving = TRUE,
                                        ![id].direction = IF target > car.currentFloor
                                                          THEN MOVING_UP ELSE MOVING_DOWN]
             /\ U.timers = Append(S.timers, [kind |-> "move", elevator |-> id,
                                             floor |-> target])
             /\ U.pendingCalls = S.pendingCalls

\* the movement steps a tick can take from the current state: for a car that
\* is Available, before and after its stop at the floor
MovementStepsOK ==
    \A id \in Ids :
        \A S \in {ServiceState, handleElevatorAtFloor(ServiceState, id)} :
            IsAvailable(S.elevators[id]) => MovementStepOf(S, id)

\* C30: the movement step of an Available car sets the car idle where it is
\* when there is no next destination or the next destination is its floor, and
\* otherwise sets it moving, up or down as the target lies; a moving car is
\* never idle and stays at its floor until its timer fires; the timer of a car
\* still moving puts the car at the target, whatever the floors in between, and
\* ends the movement.
C30_MovementStep ==
    [][/\ MovementStepsOK'
       /\ \A id \in Ids : elevators'[id].isMoving => elevators'[id].direction # IDLE
       /\ \A id \in Ids :
             elevators[id].isMoving
             => IF timers # << >> /\ timers' = Tail(timers)
                   /\ Head(timers).kind = "move" /\ Head(timers).elevator = id
                THEN /\ elevators'[id].currentFloor = Head(timers).floor
                     /\ ~elevators'[id].isMoving
                     /\ elevators'[id].direction = elevators[id].direction
                ELSE /\ elevators'[id].currentFloor = elevators[id].currentFloor
                     /\ elevators'[id].isMoving]_vars

\* C30 witness: a car went up past a floor in one hop, arrived, and is now
\* moving down to a target below it; another movement step set a car idle
C30_Witness ==
    /\ \E id \in Ids :
          /\ elevators[id].isMoving
          /\ elevators[id].direction = MOVING_DOWN
          /\ \E i \in 1 .. Len(timers) :
                /\ timers[i].kind = "move" /\ timers[i].elevator = id
                /\ timers[i].floor < elevators[id].currentFloor
          /\ \E j \in 1 .. Len(logs) :
                /\ logs[j].message = "arrived" /\ logs[j].elevatorId = id
                /\ logs[j].floor = FLOORS
    /\ \E j \in 1 .. Len(logs) : logs[j].message = "idle"

\* a loading timer that fires for a car that is not loading leaves the state
\* as it is
LateLoadingTimerIgnored ==
    \A id \in Ids :
        ~elevators[id].isLoading
        => \A destinations \in generatePassengerDestinations(elevators[id].currentFloor,
                                                             DEFAULT_MAX_DESTINATIONS) :
              loadingTimeout(ServiceState,
                             [kind |-> "loading", elevator |-> id,
                              floor |-> elevators[id].currentFloor],
                             destinations) = ServiceState

\* C31: when the loading timer of a car that is still loading fires, a
\* destination set generated for the pickup floor is united with the car's
\* destinations (the ones it had are kept), the passenger count becomes the size
\* of the new set and the car stops loading, nothing else of the fleet, the
\* queue and the counter changing; a loading timer that fires for a car that is
\* not loading changes nothing.
C31_LoadingCompletion ==
    [][/\ LateLoadingTimerIgnored'
       /\ (timers # << >> /\ timers' = Tail(timers) /\ Head(timers).kind = "loading"
           /\ elevators[Head(timers).elevator].isLoading)
          => LET id == Head(timers).elevator
                 before == elevators[id]
                 after == elevators'[id]
             IN  /\ \E destinations \in generatePassengerDestinations(
                                            Head(timers).floor, DEFAULT_MAX_DESTINATIONS) :
                       after.destinationFloors = before.destinationFloors \cup destinations
                 /\ before.destinationFloors \subseteq after.destinationFloors
                 /\ after.passengers = Cardinality(after.destinationFloors)
                 /\ ~after.isLoading
                 /\ elevators' = [elevators EXCEPT ![id] = after]
                 /\ after = [before EXCEPT !.destinationFloors = after.destinationFloors,
                                           !.passengers = after.passengers,
                                           !.isLoading = FALSE]
                 /\ UNCHANGED <<pendingCalls, totalCallsProcessed>>]_vars

\* C31 witness: a car that carried passengers has just finished loading again
\* and carries passengers for two floors or more
C31_Witness ==
    \E id \in Ids :
        /\ ~elevators[id].isLoading
        /\ Cardinality(elevators[id].destinationFloors) >= 2
        /\ logs[Len(logs)].message = "finished loading"
        /\ logs[Len(logs)].elevatorId = id
        /\ \E i, j \in 1 .. Len(logs) - 1 :
              /\ i < j
              /\ logs[i].message = "finished loading" /\ logs[i].elevatorId = id
              /\ logs[j].message = "loading" /\ logs[j].elevatorId = id

\* the pending calls at the floor of car id that are assigned to it
CallsToPickUp(S, id) ==
    SelectSeq(S.pendingCalls,
              LAMBDA c : c.floor = S.elevators[id].currentFloor /\ c.assignedElevator = id)

\* car id is Available at a floor that is one of its destinations and the floor
\* of a pending call assigned to it
DropoffAndPickupDue(id) ==
    /\ IsAvailable(elevators[id])
    /\ elevators[id].currentFloor \in elevators[id].destinationFloors
    /\ CallsToPickUp(ServiceState, id) # << >>

\* C32: when an Available car stands at a floor that is both one of its
\* destinations and the floor of a pending call assigned to it, one tick takes
\* the floor out of its destinations, takes that call (the first such call)
\* out of the queue, counts it as processed and sets the car loading, with a
\* loading timer for that floor.
C32_DropoffAndPickupInOnePass ==
    \A id \in Ids :
        DropoffAndPickupDue(id)
        => LET call == CallsToPickUp(ServiceState, id)[1]
               P == handleElevatorAtFloor(ServiceState, id)
               T == processElevatorLogic(ServiceState)
           IN  /\ elevators[id].currentFloor \notin P.elevators[id].destinationFloors
               /\ P.elevators[id].isLoading
               /\ P.pendingCalls = SelectSeq(pendingCalls, LAMBDA c : c.id # call.id)
               /\ P.totalCallsProcessed = totalCallsProcessed + 1
               /\ elevators[id].currentFloor \notin T.elevators[id].destinationFloors
               /\ T.elevators[id].isLoading
               /\ \A i \in 1 .. Len(T.pendingCalls) : T.pendingCalls[i].id # call.id
               /\ \E i \in 1 .. Len(T.timers) :
                     T.timers[i] = [kind |-> "loading", elevator |-> id,
                                    floor |-> elevators[id].currentFloor]

\* C32 witness: a car with passengers for two floors has arrived at a floor
\* that is one of them and where a call assigned to it waits
C32_Witness ==
    \E id \in Ids :
        /\ DropoffAndPickupDue(id)
        /\ Cardinality(elevators[id].destinationFloors) >= 2

\* the timers a tick from the current state starts, in the order it starts them
StartedByTick ==
    LET T == processElevatorLogic(ServiceState)
    IN  SubSeq(T.timers, Len(timers) + 1, Len(T.timers))

\* C33: in a tick the cars are advanced in ascending order of their ids (the
\* timers the tick starts are in that order) and the reassignment pass runs on
\* the fleet as the advancing left it: a call that was unassigned and is
\* assigned by the tick goes to a car that is Available after the advancing (not
\* one that started moving or loading in this tick), and every unassigned call
\* for which findBestElevator finds a car in the advanced fleet is assigned to
\* that car by the tick.
C33_AdvanceThenReassign ==
    LET A == ProcessElevatorsFrom(ServiceState, 1)
        T == processElevatorLogic(ServiceState)
    IN  /\ \A i, j \in 1 .. Len(StartedByTick) :
               i < j => StartedByTick[i].elevator <= StartedByTick[j].elevator
        /\ T.elevators = A.elevators
        /\ Len(T.pendingCalls) = Len(A.pendingCalls)
        /\ \A i \in 1 .. Len(A.pendingCalls) :
              LET before == A.pendingCalls[i]
                  after == T.pendingCalls[i]
                  bestElevator == findBestElevator(A.elevators, before)
              IN  /\ after.id = before.id
                  /\ before.assignedElevator # None => after = before
                  /\ (before.assignedElevator = None /\ after.assignedElevator # None)
                     => IsAvailable(A.elevators[after.assignedElevator])
                  /\ (before.assignedElevator = None /\ bestElevator # NoElevator)
                     => after.assignedElevator = bestElevator.id

\* C33 witness: a tick that starts timers for two cars and then assigns a
\* waiting call to a third car, which is Available after the advancing
C33_Witness ==
    LET T == processElevatorLogic(ServiceState)
    IN  /\ \E i, j \in 1 .. Len(StartedByTick) :
              StartedByTick[i].elevator < StartedByTick[j].elevator
        /\ \E i \in 1 .. Len(pendingCalls) :
              /\ pendingCalls[i].assignedElevator = None
              /\ \E j \in 1 .. Len(T.pendingCalls) :
                    /\ T.pendingCalls[j].id = pendingCalls[i].id
                    /\ T.pendingCalls[j].assignedElevator # None

\* the service state after the pending timer i of S has fired, a loading
\* timer with `destinations`
FireTimer(S, i, destinations) ==
    LET timer == S.timers[i]
        S1 == [S EXCEPT !.timers = SubSeq(@, 1, i - 1) \o SubSeq(@, i + 1, Len(@))]
    IN  IF timer.kind = "loading" THEN loadingTimeout(S1, timer, destinations)
        ELSE moveTimeout(S1, timer)

\* the destination sets the callback of a timer can draw
DrawnBy(timer) ==
    IF timer.kind = "loading"
    THEN generatePassengerDestinations(timer.floor, DEFAULT_MAX_DESTINATIONS)
    ELSE {{}}

\* C34: when the timers of two different cars are pending, firing them in
\* either order gives the same fleet, queue, counter and pending timers, the
\* log holding the same entries with the last two in the other order; and
\* the firing of a timer changes its own car only, not the queue nor the
\* counter.
C34_CompletionsCommute ==
    \A i, j \in 1 .. Len(timers) :
        (i < j /\ timers[i].elevator # timers[j].elevator)
        => \A Di \in DrawnBy(timers[i]), Dj \in DrawnBy(timers[j]) :
              LET Si == FireTimer(ServiceState, i, Di)
                  Sij == FireTimer(Si, j - 1, Dj)
                  Sj == FireTimer(ServiceState, j, Dj)
                  Sji == FireTimer(Sj, i, Di)
                  n == Len(Sij.logs)
              IN  /\ Sij.elevators = Sji.elevators
                  /\ Sij.pendingCalls = Sji.pendingCalls
                  /\ Sij.totalCallsProcessed = Sji.totalCallsProcessed
                  /\ Sij.timers = Sji.timers
                  /\ Len(Sji.logs) = n
                  /\ SubSeq(Sij.logs, 1, n - 2) = SubSeq(Sji.logs, 1, n - 2)
                  /\ Sij.logs[n] = Sji.logs[n - 1]
                  /\ Sij.logs[n - 1] = Sji.logs[n]
                  /\ \A id \in Ids \ {timers[i].elevator} :
                        Si.elevators[id] = elevators[id]
                  /\ Si.elevators[timers[i].elevator] # elevators[timers[i].elevator]
                  /\ Si.pendingCalls = pendingCalls
                  /\ Si.totalCallsProcessed = totalCallsProcessed

\* C34 witness: one car is moving and another is loading, the loading timer
\* the older of the two pending timers
C34_Witness ==
    \E i, j \in 1 .. Len(timers) :
        /\ i < j
        /\ timers[i].kind = "loading" /\ timers[j].kind = "move"
        /\ timers[i].elevator # timers[j].elevator
        /\ elevators[timers[i].elevator].isLoading
        /\ elevators[timers[j].elevator].isMoving

\* C35: with every call created by createFloorCall or generateRandomCall, in
\* every reachable state the floor of every car and every floor of its
\* destination set are in 1 .. FLOORS.
C35_FloorsInBuilding ==
    \A id \in Ids :
        /\ elevators[id].currentFloor \in 1 .. FLOORS
        /\ elevators[id].destinationFloors \subseteq 1 .. FLOORS

\* C35 witness: a car has arrived at the top floor and carries passengers for
\* the ground floor
C35_Witness ==
    \E id \in Ids :
        /\ elevators[id].currentFloor = FLOORS
        /\ 1 \in elevators[id].destinationFloors
        /\ \E i \in 1 .. Len(logs) : logs[i].message = "arrived" /\ logs[i].elevatorId = id

\* C36: the processed counter never decreases, and in every reachable state
\* the number of calls added so far (every created call is added) is the
\* processed counter plus the length of the pending queue.
C36_CallConservation ==
    [][/\ totalCallsProcessed' >= totalCallsProcessed
       /\ callIdCounter' = totalCallsProcessed' + Len(pendingCalls')]_vars

\* C36 witness: two calls were added at the same floor; one was picked up and
\* counted, the other is still pending
C36_Witness ==
    /\ callIdCounter = 2
    /\ totalCallsProcessed = 1
    /\ Len(pendingCalls) = 1
    /\ \E i \in 1 .. Len(logs) :
          logs[i].message = "loading" /\ logs[i].floor = pendingCalls[1].floor

\* C37: once a pending call has an assigned elevator, every step leaves that
\* assignment as it is for as long as the call is in the queue, also when
\* findBestElevator would now choose another car.
C37_AssignmentSticky ==
    [][\A i \in 1 .. Len(pendingCalls), j \in 1 .. Len(pendingCalls') :
          (pendingCalls[i].assignedElevator # None
           /\ pendingCalls'[j].id = pendingCalls[i].id)
          => pendingCalls'[j] = pendingCalls[i]]_vars

\* C37 witness: a call waits assigned to a car that is on its way, while
\* findBestElevator would now give it to another car
C37_Witness ==
    \E i \in 1 .. Len(pendingCalls) :
        /\ pendingCalls[i].assignedElevator # None
        /\ findBestElevator(elevators, pendingCalls[i]) # NoElevator
        /\ findBestElevator(elevators, pendingCalls[i]).id # pendingCalls[i].assignedElevator
        /\ \E j \in 1 .. Len(logs) : logs[j].message = "reassigned"

\* floor is a destination of car id or the floor of a pending call assigned to it
UsefulFloor(fleet, calls, id, floor) ==
    \/ floor \in fleet[id].destinationFloors
    \/ \E i \in 1 .. Len(calls) : calls[i].floor = floor /\ calls[i].assignedElevator = id

\* C38: when the movement timer of a car fires and puts the car at its target
\* floor, that floor is one of the car's destinations or the floor of a pending
\* call assigned to the car.
C38_ArrivalUseful ==
    [][(timers # << >> /\ timers' = Tail(timers) /\ Head(timers).kind = "move")
       => /\ elevators'[Head(timers).elevator].currentFloor = Head(timers).floor
          /\ UsefulFloor(elevators', pendingCalls', Head(timers).elevator,
                         Head(timers).floor)]_vars

\* C38 witness: a car has just arrived at a floor where its passengers get off,
\* with a call assigned to it waiting at another floor
C38_Witness ==
    \E id \in Ids :
        /\ logs[Len(logs)].message = "arrived"
        /\ logs[Len(logs)].elevatorId = id
        /\ elevators[id].currentFloor = logs[Len(logs)].floor
        /\ elevators[id].currentFloor \in elevators[id].destinationFloors
        /\ \E i \in 1 .. Len(pendingCalls) :
              /\ pendingCalls[i].assignedElevator = id
              /\ pendingCalls[i].floor # elevators[id].currentFloor

\* C39: when a tick makes an Available car pick up a call at a floor where it
\* lets no passenger off, the direction of the car at that moment is idle or
\* the direction of the call that is removed.
C39_PickupDirectionCompatible ==
    \A id \in Ids :
        LET P == handleElevatorAtFloor(ServiceState, id)
        IN  (/\ IsAvailable(elevators[id])
             /\ elevators[id].currentFloor \notin elevators[id].destinationFloors
             /\ P.elevators[id].isLoading)
            => LET removed == CallsToPickUp(ServiceState, id)[1]
               IN  /\ \A i \in 1 .. Len(P.pendingCalls) : P.pendingCalls[i].id # removed.id
                   /\ isCallCompatibleWithDirection(removed, elevators[id].direction)

====
